---- MODULE Spec2Model ----
(***************************************************************************)
(* Verification model of the puzzle solvers of the repository.  Every day  *)
(* is an independent program, so the module holds one group of variables   *)
(* and one specification per program; a specification leaves the other     *)
(* programs' variables at their idle values.                               *)
(*                                                                         *)
(*   SpecDay8     day-eight  Manager (circuits merged along sorted pairs)  *)
(*   SpecLights   day-ten    Machine::find_min_button_presses (GF(2))      *)
(*   SpecJoltage  day-ten    Machine::find_min_button_presses_pt_2 (dfs)   *)
(*   SpecDial     day-one    Counter::rotate over a sequence of rotations  *)
(*   SpecTodo     main() of day-five, day-twelve part two and the template *)
(*   SpecParsers  main() of day-one, day-four and day-seven                *)
(*   SpecRolls    day-four   Grid::part2, round by round                   *)
(*   SpecIds      day-two    Range::invalid_ids, invalid_ids_part2         *)
(*   SpecBank     day-three  BatteryBank::find_largest_k (pick_k)          *)
(*   SpecBeams    day-seven  Manager::run_p1                               *)
(*   SpecPar      the threads of day-eleven part_two and the rayon tasks   *)
(*                of day-twelve part_one                                   *)
(***************************************************************************)
EXTENDS Integers, Sequences, FiniteSets, TLC

VARIABLES
    \* ---- day-eight: Manager { poses, distance_manager, circuit_manager }
    poses,                \* Manager.poses: index -> <<x, y, z>>
    distances,            \* DistanceManager.distances (f32 matrix)
    ordered_distances,    \* DistanceManager.ordered_distances (popped from the end)
    position_to_circuit,  \* CircuitManager.position_to_circuit
    circuit_to_position,  \* CircuitManager.circuit_to_position
    uuid_gen,             \* CircuitManager.uuid_gen.inner
    part8,                \* "one": Manager::part_one runs, "two": Manager::part_two
    pc8,                  \* "loop" | "done" | "panicked"
    n_iters,              \* argument of Manager::part_one
    iter8,                \* loop iterations completed
    processed,            \* history: <<idx0, idx1, try_combine's result>> of each iteration
    result8,              \* value returned
    \* ---- day-ten: Machine and the locals of its two solvers
    light_diagram,        \* Machine.light_diagram.inner: light index -> On?
    buttons,              \* Machine.buttons: button index -> lights_affected
    joltage_requirements, \* Machine.joltage_requirements: counter index -> target
    part10,               \* "one": find_min_button_presses, "two": ..._pt_2
    pc10,                 \* "eliminate" | "solve" | "dfs" | "done" | "panicked"
    eqs10,                \* gaussian_elim_gf2: eqs (row as the set of its 1 bits)
    pivot_col,            \* gaussian_elim_gf2: pivot_col (None is -1)
    row10,                \* gaussian_elim_gf2: row
    col10,                \* gaussian_elim_gf2: col of the elimination loop
    particular,           \* particular solution (set of buttons)
    nullspace,            \* nullspace basis (sequence of sets of buttons)
    result10,             \* value returned
    \* ---- day-one: Counter and the rotations read so far
    val,                  \* Counter.val (u8)
    counter_pt_1,         \* Counter.counter_pt_1
    counter_pt_2,         \* Counter.counter_pt_2 (usize: the integer nearest 0 that
                          \* is congruent to it mod 2^64, so -1 is usize::MAX)
    pc1,                  \* "run" | "panicked"
    build1,               \* "debug" (overflow panics) | "release" (overflow wraps)
    applied,              \* history: the rotations applied, <<"L" or "R", amount>>
    dial,                 \* history: where the dial really points
    clicks_at_zero,       \* history: clicks so far after which the dial pointed at 0
    stops_at_zero,        \* history: rotations so far that ended on 0
    \* ---- main(): one run of a day's executable
    program,              \* which executable runs
    partM,                \* the Part subcommand: 1 | 2
    buildM,               \* "debug" | "release"
    file,                 \* the input file: its lines, each a sequence of characters
    pcM,                  \* "start" | "parse" | "compute" | "print" | "completed" | "exit"
                          \* | "aborted"
    lineM,                \* how many lines parse_input has taken from the file
    parsedM,              \* what parse_input has built, and returns
    answerM,              \* what part_one / part_two returned
    stdoutM,              \* the lines printed so far
    \* ---- the parallel parts: day-eleven part_two, day-twelve part_one
    progP,                \* which of the two runs
    inputP,               \* self.graph (its edges) | self.regions
    mainP,                \* the calling thread: "start" | "spawn" | "join" | "par_iter" | "done"
    nextP,                \* day-eleven: how many threads are spawned, then how many joined
    joinedP,              \* day-eleven: what the joins returned, in join order
    workersP,             \* the workers: threads of day-eleven, region tasks of day-twelve
    success_counter,      \* day-twelve: the AtomicUsize of that name
    regions_left,         \* day-twelve: the AtomicUsize of that name
    resultP,              \* the returned number
    accessP,              \* history: <<worker, "read" | "write", location>> for every
                          \* access a worker has made
    \* ---- day-four: Grid and the locals of Grid::part2
    lines4,               \* the lines Grid::new was given
    build4,               \* "debug" | "release"
    grid4,                \* the Grid { inner, neighbor_map, accessibility_map }
    s4,                   \* part2: s, the number it returns
    pc4,                  \* "start" | "loop" | "returned"
    rounds4,              \* part2: calls of evolve so far
    rolls4,               \* history: the rolls left by the rounds as the puzzle states them
    \* ---- day-two: Range and the locals of invalid_ids / invalid_ids_part2
    callee2,              \* "invalid_ids" | "invalid_ids_part2"
    left2,                \* Range.left
    right2,               \* Range.right
    val2,                 \* the loop variable: the next value of self.left..=self.right
    v2,                   \* the Vec the call builds, and returns
    stdout2,              \* the values check_for_repeats_part2 printed a line for
    pc2,                  \* "start" | "loop" | "returned"
    \* ---- day-three: BatteryBank and the calls of pick_k
    bank3,                \* BatteryBank.0, the characters of the line
    k3,                   \* find_largest_k: k
    digits3,              \* pick_k: digits, the slice of the innermost call
    select3,              \* pick_k: n_digits_to_select of the innermost call
    stack3,               \* the calls of pick_k waiting for `rest`: their max_digit * 10^(n - 1)
    ret3,                 \* what the last call of pick_k returned
    pc3,                  \* "start" | "call" | "unwind" | "returned"
    \* ---- day-seven: Manager and the locals of run_p1
    manifold7,            \* Manager.manifold
    beams7,               \* run_p1: beams
    ctr7,                 \* run_p1: ctr
    pc7,                  \* "start" | "while" | "returned" | "panicked"
    travelling7,          \* history: where the beams are, as the puzzle states them
    reached7              \* history: the splitters a beam has moved into

vars8 == <<poses, distances, ordered_distances, position_to_circuit,
           circuit_to_position, uuid_gen, part8, pc8, n_iters, iter8, processed, result8>>

vars10 == <<light_diagram, buttons, joltage_requirements, part10, pc10, eqs10,
            pivot_col, row10, col10, particular, nullspace, result10>>

vars1 == <<val, counter_pt_1, counter_pt_2, pc1, build1, applied, dial,
           clicks_at_zero, stops_at_zero>>

varsM == <<program, partM, buildM, file, pcM, lineM, parsedM, answerM, stdoutM>>

varsP == <<progP, inputP, mainP, nextP, joinedP, workersP, success_counter,
           regions_left, resultP, accessP>>

vars4 == <<lines4, build4, grid4, s4, pc4, rounds4, rolls4>>

vars2 == <<callee2, left2, right2, val2, v2, stdout2, pc2>>

vars3 == <<bank3, k3, digits3, select3, stack3, ret3, pc3>>

vars7 == <<manifold7, beams7, ctr7, pc7, travelling7, reached7>>

vars == <<vars8, vars10, vars1, varsM, varsP, vars4, vars2, vars3, vars7>>

(***************************************************************************)
(* Idle values: the state of a program that is not run                     *)
(***************************************************************************)
Idle8 ==
    /\ poses = <<>>
    /\ distances = <<>>
    /\ ordered_distances = <<>>
    /\ position_to_circuit = <<>>
    /\ circuit_to_position = <<>>
    /\ uuid_gen = 0
    /\ part8 = "none"
    /\ pc8 = "idle"
    /\ n_iters = 0
    /\ iter8 = 0
    /\ processed = <<>>
    /\ result8 = 0

Idle10 ==
    /\ light_diagram = <<>>
    /\ buttons = <<>>
    /\ joltage_requirements = <<>>
    /\ part10 = "none"
    /\ pc10 = "idle"
    /\ eqs10 = <<>>
    /\ pivot_col = <<>>
    /\ row10 = 0
    /\ col10 = 0
    /\ particular = {}
    /\ nullspace = <<>>
    /\ result10 = 0

Idle1 ==
    /\ val = 0
    /\ counter_pt_1 = 0
    /\ counter_pt_2 = 0
    /\ pc1 = "idle"
    /\ build1 = "none"
    /\ applied = <<>>
    /\ dial = 0
    /\ clicks_at_zero = 0
    /\ stops_at_zero = 0

IdleM ==
    /\ program = "none"
    /\ partM = 0
    /\ buildM = "none"
    /\ file = <<>>
    /\ pcM = "idle"
    /\ lineM = 0
    /\ parsedM = <<>>
    /\ answerM = 0
    /\ stdoutM = <<>>

IdleP ==
    /\ progP = "none"
    /\ inputP = <<>>
    /\ mainP = "idle"
    /\ nextP = 0
    /\ joinedP = <<>>
    /\ workersP = <<>>
    /\ success_counter = 0
    /\ regions_left = 0
    /\ resultP = 0
    /\ accessP = {}

Idle4 ==
    /\ lines4 = <<>>
    /\ build4 = "none"
    /\ grid4 = <<>>
    /\ s4 = 0
    /\ pc4 = "idle"
    /\ rounds4 = 0
    /\ rolls4 = {}

Idle2 ==
    /\ callee2 = "none"
    /\ left2 = 0
    /\ right2 = 0
    /\ val2 = 0
    /\ v2 = <<>>
    /\ stdout2 = <<>>
    /\ pc2 = "idle"

Idle3 ==
    /\ bank3 = <<>>
    /\ k3 = 0
    /\ digits3 = <<>>
    /\ select3 = 0
    /\ stack3 = <<>>
    /\ ret3 = 0
    /\ pc3 = "idle"

Idle7 ==
    /\ manifold7 = <<>>
    /\ beams7 = {}
    /\ ctr7 = 0
    /\ pc7 = "idle"
    /\ travelling7 = {}
    /\ reached7 = {}

\* what a program's steps leave alone: the other programs' variables
others8 == <<vars10, vars1, varsM, varsP, vars4, vars2, vars3, vars7>>
others10 == <<vars8, vars1, varsM, varsP, vars4, vars2, vars3, vars7>>
others1 == <<vars8, vars10, varsM, varsP, vars4, vars2, vars3, vars7>>
othersM == <<vars8, vars10, vars1, varsP, vars4, vars2, vars3, vars7>>
othersP == <<vars8, vars10, vars1, varsM, vars4, vars2, vars3, vars7>>
others4 == <<vars8, vars10, vars1, varsM, varsP, vars2, vars3, vars7>>
others2 == <<vars8, vars10, vars1, varsM, varsP, vars4, vars3, vars7>>
others3 == <<vars8, vars10, vars1, varsM, varsP, vars4, vars2, vars7>>
others7 == <<vars8, vars10, vars1, varsM, varsP, vars4, vars2, vars3>>

IdleOthers8 == Idle10 /\ Idle1 /\ IdleM /\ IdleP /\ Idle4 /\ Idle2 /\ Idle3 /\ Idle7
IdleOthers10 == Idle8 /\ Idle1 /\ IdleM /\ IdleP /\ Idle4 /\ Idle2 /\ Idle3 /\ Idle7
IdleOthers1 == Idle8 /\ Idle10 /\ IdleM /\ IdleP /\ Idle4 /\ Idle2 /\ Idle3 /\ Idle7
IdleOthersM == Idle8 /\ Idle10 /\ Idle1 /\ IdleP /\ Idle4 /\ Idle2 /\ Idle3 /\ Idle7
IdleOthersP == Idle8 /\ Idle10 /\ Idle1 /\ IdleM /\ Idle4 /\ Idle2 /\ Idle3 /\ Idle7
IdleOthers4 == Idle8 /\ Idle10 /\ Idle1 /\ IdleM /\ IdleP /\ Idle2 /\ Idle3 /\ Idle7
IdleOthers2 == Idle8 /\ Idle10 /\ Idle1 /\ IdleM /\ IdleP /\ Idle4 /\ Idle3 /\ Idle7
IdleOthers3 == Idle8 /\ Idle10 /\ Idle1 /\ IdleM /\ IdleP /\ Idle4 /\ Idle2 /\ Idle7
IdleOthers7 == Idle8 /\ Idle10 /\ Idle1 /\ IdleM /\ IdleP /\ Idle4 /\ Idle2 /\ Idle3

(***************************************************************************)
(* Helpers on sequences and sets                                           *)
(***************************************************************************)
Reverse(s) == [i \in 1..Len(s) |-> s[Len(s) + 1 - i]]

RECURSIVE Pow2(_)
Pow2(k) == IF k = 0 THEN 1 ELSE 2 * Pow2(k - 1)

(***************************************************************************)
(* day-eight: f32 arithmetic of DistanceManager::new                       *)
(*                                                                         *)
(* A non-negative f32 is <<e, m>>: the value m * 2^(e-23) with             *)
(* 2^23 <= m < 2^24, or <<0, 0>> for 0.0; Infinity is <<999, 0>>.           *)
(* Coordinates, their differences and the sum of the three squares are     *)
(* integers below 2^24 for every input the model draws (InF32ExactRange),  *)
(* so the cast to f32, the subtraction and norm_squared are exact and the  *)
(* only rounding is that of the square root (IEEE round-to-nearest-even).  *)
(***************************************************************************)
F32Infinity == <<999, 0>>

\* floor(sqrt(n)) and the remainder n - floor(sqrt(n))^2, digit by digit
RECURSIVE IntSqrtRem(_)
IntSqrtRem(n) ==
    IF n = 0 THEN <<0, 0>>
    ELSE LET q     == IntSqrtRem(n \div 4)
             rem   == q[2] * 4 + (n % 4)
             trial == 4 * q[1] + 1
         IN  IF rem >= trial THEN <<2 * q[1] + 1, rem - trial>>
                             ELSE <<2 * q[1], rem>>

\* k further binary digits of the root
RECURSIVE SqrtFraction(_, _)
SqrtFraction(q, k) ==
    IF k = 0 THEN q
    ELSE LET rem   == q[2] * 4
             trial == 4 * q[1] + 1
         IN  SqrtFraction(IF rem >= trial THEN <<2 * q[1] + 1, rem - trial>>
                                          ELSE <<2 * q[1], rem>>, k - 1)

RECURSIVE BitLen(_)
BitLen(n) == IF n = 0 THEN 0 ELSE 1 + BitLen(n \div 2)

\* f32::sqrt of the integer n (exactly representable): correctly rounded
F32Sqrt(n) ==
    IF n = 0 THEN <<0, 0>>
    ELSE LET q0    == IntSqrtRem(n)
             len   == BitLen(q0[1])
             q     == SqrtFraction(q0, 25 - len)   \* 24 digits and a guard digit
             m     == q[1] \div 2
             guard == q[1] % 2
             up    == guard = 1 /\ (q[2] # 0 \/ m % 2 = 1)
             m1    == IF up THEN m + 1 ELSE m
         IN  IF m1 = Pow2(24) THEN <<len, Pow2(23)>> ELSE <<len - 1, m1>>

\* f32 partial_cmp: "Less", "Equal" or "Greater"
F32Cmp(a, b) ==
    IF a[1] < b[1] \/ (a[1] = b[1] /\ a[2] < b[2]) THEN "Less"
    ELSE IF a = b THEN "Equal" ELSE "Greater"

\* (pos0 - pos1).norm_squared(), exact
NormSquared(p, q) ==
    (p[1] - q[1]) * (p[1] - q[1]) + (p[2] - q[2]) * (p[2] - q[2])
        + (p[3] - q[3]) * (p[3] - q[3])

\* (pos0.cast::<f32>() - pos1.cast::<f32>()).norm()
F32Norm(p, q) == F32Sqrt(NormSquared(p, q))

InF32ExactRange(ps) ==
    \A i \in DOMAIN ps : \A j \in DOMAIN ps :
        /\ \A c \in 1..3 : ps[i][c] < Pow2(24)
        /\ NormSquared(ps[i], ps[j]) < Pow2(24)

(***************************************************************************)
(* day-eight: DistanceManager::new                                         *)
(***************************************************************************)
\* idx_list as pushed by the two nested loops: (0,1), (0,2), ..., (n-2,n-1)
RECURSIVE IdxListFrom(_, _, _)
IdxListFrom(idx0, idx1, n) ==
    IF idx0 >= n - 1 THEN <<>>
    ELSE IF idx1 >= n THEN IdxListFrom(idx0 + 1, idx0 + 2, n)
    ELSE <<(<<idx0, idx1>>)>> \o IdxListFrom(idx0, idx1 + 1, n)

IdxList(n) == IdxListFrom(0, 1, n)

DistanceMatrix(ps) ==
    [ij \in (DOMAIN ps) \X (DOMAIN ps) |->
        IF ij[1] = ij[2] THEN F32Infinity ELSE F32Norm(ps[ij[1]], ps[ij[2]])]

\* The comparison closure handed to sort_by
CompareByDistance(dm, a, b) == F32Cmp(dm[a], dm[b])

\* slice::sort_by is a stable sort: an element goes behind every element
\* that does not compare Greater than it.
RECURSIVE InsertStable(_, _, _)
InsertStable(dm, sorted, x) ==
    IF sorted = <<>> THEN <<x>>
    ELSE IF CompareByDistance(dm, sorted[Len(sorted)], x) = "Greater"
         THEN InsertStable(dm, SubSeq(sorted, 1, Len(sorted) - 1), x)
                  \o <<sorted[Len(sorted)]>>
         ELSE sorted \o <<x>>

RECURSIVE SortBy(_, _)
SortBy(dm, list) ==
    IF list = <<>> THEN <<>>
    ELSE InsertStable(dm, SortBy(dm, SubSeq(list, 1, Len(list) - 1)), list[Len(list)])

\* idx_list.sort_by(..); idx_list.reverse()
OrderedDistances(ps) ==
    Reverse(SortBy(DistanceMatrix(ps), IdxList(Cardinality(DOMAIN ps))))

(***************************************************************************)
(* day-eight: CircuitManager                                               *)
(***************************************************************************)
\* CircuitManager::new: position idx is alone in circuit idx
NewPositionToCircuit(ps) == [idx \in DOMAIN ps |-> idx]
NewCircuitToPosition(ps) == [uuid \in DOMAIN ps |-> {uuid}]

\* the guard of try_combine: the two positions are in different circuits
CanCombine(p2c, idx0, idx1) == p2c[idx0] # p2c[idx1]

\* try_combine when it returns true: both circuits are replaced by a new one
CombinedPositionToCircuit(p2c, c2p, new_cid, idx0, idx1) ==
    [pid \in DOMAIN p2c |->
        IF pid \in c2p[p2c[idx0]] \cup c2p[p2c[idx1]] THEN new_cid ELSE p2c[pid]]

CombinedCircuitToPosition(p2c, c2p, new_cid, idx0, idx1) ==
    [cid \in ((DOMAIN c2p) \ {p2c[idx0], p2c[idx1]}) \cup {new_cid} |->
        IF cid = new_cid THEN c2p[p2c[idx0]] \cup c2p[p2c[idx1]] ELSE c2p[cid]]

\* circuit_sizes sorted descending: the k-th largest size (k from 1)
RECURSIVE LargestSizes(_, _, _)
LargestSizes(c2p, cids, k) ==
    IF k = 0 \/ cids = {} THEN <<>>
    ELSE LET big == CHOOSE c \in cids :
                        \A d \in cids : Cardinality(c2p[d]) <= Cardinality(c2p[c])
         IN  <<Cardinality(c2p[big])>> \o LargestSizes(c2p, cids \ {big}, k - 1)

RECURSIVE SeqProduct(_)
SeqProduct(s) == IF s = <<>> THEN 1 ELSE s[1] * SeqProduct(Tail(s))

\* CircuitManager::part_one: product of the (up to) three largest sizes
CircuitPartOne(c2p) == SeqProduct(LargestSizes(c2p, DOMAIN c2p, 3))

\* CircuitManager::is_one_large_circuit
IsOneLargeCircuit(c2p) == Cardinality(DOMAIN c2p) = 1

(***************************************************************************)
(* day-eight: inputs, Manager::new, Manager::part_one, Manager::part_two   *)
(***************************************************************************)
MaxPoses == 5

\* The positions an input line may hold.
Coords ==
    { <<1, 0, 0>>, <<2310, 68, 0>>, <<1, 0, 2400>>,
      <<2311, 2, 2400>>, <<2310, 68, 2400>> }

NumPairs(ps) == (Cardinality(DOMAIN ps) * (Cardinality(DOMAIN ps) - 1)) \div 2

\* Manager::new and the call of part_one(n) or part_two()
Init8 ==
    /\ IdleOthers8
    /\ \E n \in 1..MaxPoses : poses \in [0..(n - 1) -> Coords]
    /\ InF32ExactRange(poses)
    /\ distances = DistanceMatrix(poses)
    /\ ordered_distances = OrderedDistances(poses)
    /\ position_to_circuit = NewPositionToCircuit(poses)
    /\ circuit_to_position = NewCircuitToPosition(poses)
    /\ uuid_gen = Cardinality(DOMAIN poses)
    /\ part8 \in {"one", "two"}
    /\ pc8 = "loop"
    /\ n_iters \in IF part8 = "one" THEN 0..(NumPairs(poses) + 1) ELSE {0}
    /\ iter8 = 0
    /\ processed = <<>>
    /\ result8 = 0

\* One iteration of either loop: next(), try_combine, connect
Iterate8 ==
    LET pair == ordered_distances[Len(ordered_distances)]
        idx0 == pair[1]
        idx1 == pair[2]
        ok   == CanCombine(position_to_circuit, idx0, idx1)
    IN  /\ ordered_distances' = SubSeq(ordered_distances, 1, Len(ordered_distances) - 1)
        /\ IF ok
           THEN /\ position_to_circuit' = CombinedPositionToCircuit(
                       position_to_circuit, circuit_to_position, uuid_gen, idx0, idx1)
                /\ circuit_to_position' = CombinedCircuitToPosition(
                       position_to_circuit, circuit_to_position, uuid_gen, idx0, idx1)
                /\ uuid_gen' = uuid_gen + 1
           ELSE UNCHANGED <<position_to_circuit, circuit_to_position, uuid_gen>>
        /\ distances' = [distances EXCEPT ![<<idx0, idx1>>] = F32Infinity,
                                          ![<<idx1, idx0>>] = F32Infinity]
        /\ processed' = Append(processed, <<idx0, idx1, ok>>)
        /\ iter8' = iter8 + 1

\* Manager::part_one, one pass of `for _ in 0..n_iters`
PartOneStep ==
    /\ part8 = "one" /\ pc8 = "loop"
    /\ iter8 < n_iters
    /\ ordered_distances # <<>>
    /\ Iterate8
    /\ UNCHANGED <<poses, part8, pc8, n_iters, result8>>
    /\ UNCHANGED others8

\* Manager::part_one, after the loop: self.circuit_manager.part_one()
PartOneReturn ==
    /\ part8 = "one" /\ pc8 = "loop"
    /\ iter8 = n_iters
    /\ pc8' = "done"
    /\ result8' = CircuitPartOne(circuit_to_position)
    /\ UNCHANGED <<poses, distances, ordered_distances, position_to_circuit,
                   circuit_to_position, uuid_gen, part8, n_iters, iter8, processed>>
    /\ UNCHANGED others8

\* Manager::part_two, one pass of `loop` that does not return
PartTwoStep ==
    /\ part8 = "two" /\ pc8 = "loop"
    /\ ordered_distances # <<>>
    /\ Iterate8
    /\ ~IsOneLargeCircuit(circuit_to_position')
    /\ UNCHANGED <<poses, part8, pc8, n_iters, result8>>
    /\ UNCHANGED others8

\* Manager::part_two, the pass that returns p0.x * p1.x
PartTwoReturn ==
    /\ part8 = "two" /\ pc8 = "loop"
    /\ ordered_distances # <<>>
    /\ Iterate8
    /\ IsOneLargeCircuit(circuit_to_position')
    /\ pc8' = "done"
    /\ result8' = poses[processed'[Len(processed')][1]][1]
                    * poses[processed'[Len(processed')][2]][1]
    /\ UNCHANGED <<poses, part8, n_iters>>
    /\ UNCHANGED others8

\* DistanceManager::next on an empty list: pop() is None and unwrap panics
NextPanics ==
    /\ pc8 = "loop"
    /\ part8 = "one" => iter8 < n_iters
    /\ ordered_distances = <<>>
    /\ pc8' = "panicked"
    /\ UNCHANGED <<poses, distances, ordered_distances, position_to_circuit,
                   circuit_to_position, uuid_gen, part8, n_iters, iter8, processed, result8>>
    /\ UNCHANGED others8

Next8 == PartOneStep \/ PartOneReturn \/ PartTwoStep \/ PartTwoReturn \/ NextPanics

(***************************************************************************)
(* day-eight: what the claims state, in exact (integer) distances          *)
(***************************************************************************)
\* the unordered pair of one iteration
PairOf(entry) == {entry[1], entry[2]}

\* exact squared Euclidean distance of an iteration's pair
ExactDist2(entry) == NormSquared(poses[entry[1]], poses[entry[2]])

\* the iterations so far took pairs in non-decreasing Euclidean distance,
\* each unordered pair at most once
InEuclideanOrder ==
    /\ \A i \in 1..Len(processed) : \A j \in 1..Len(processed) :
           i < j => /\ ExactDist2(processed[i]) <= ExactDist2(processed[j])
                    /\ PairOf(processed[i]) # PairOf(processed[j])

\* no pair left out is strictly closer than a pair taken
TookTheClosest ==
    \A i \in 1..Len(processed) :
        \A a \in DOMAIN poses : \A b \in DOMAIN poses :
            (a < b /\ \A j \in 1..Len(processed) : PairOf(processed[j]) # {a, b})
                => NormSquared(poses[a], poses[b]) >= ExactDist2(processed[i])

\* positions joined to idx by the pairs taken so far
RECURSIVE Joined(_, _)
Joined(S, k) ==
    IF k = 0 THEN S
    ELSE Joined(S \cup {p \in DOMAIN poses :
                          \E i \in 1..Len(processed) :
                              p \in PairOf(processed[i]) /\ PairOf(processed[i]) \cap S # {}},
                k - 1)

ComponentOf(idx) == Joined({idx}, Cardinality(DOMAIN poses))

Components == {ComponentOf(idx) : idx \in DOMAIN poses}

\* product of the three largest component sizes (of all of them when fewer)
RECURSIVE TopProduct(_, _)
TopProduct(comps, k) ==
    IF k = 0 \/ comps = {} THEN 1
    ELSE LET big == CHOOSE c \in comps :
                        \A d \in comps : Cardinality(d) <= Cardinality(c)
         IN  Cardinality(big) * TopProduct(comps \ {big}, k - 1)

\* C1: part_one(n_iters), n_iters at most the number of pairs, takes exactly
\* the n_iters closest pairs in non-decreasing order of Euclidean distance,
\* each pair once and every one counting as an iteration, merges the
\* circuits of each, and returns the product of the three largest circuit
\* sizes.
C1_PartOneClosestPairs ==
    (part8 = "one" /\ n_iters <= NumPairs(poses)) =>
        /\ pc8 # "panicked"
        /\ InEuclideanOrder
        /\ pc8 = "done" =>
              /\ Len(processed) = n_iters
              /\ TookTheClosest
              /\ result8 = TopProduct(Components, 3)

\* C2: part_two, on at least two positions, takes pairs in non-decreasing
\* order of Euclidean distance and stops at the first pair after which all
\* positions are in one circuit; try_combine returned true for that pair and
\* the value returned is the product of the x coordinates of its positions.
C2_PartTwoLastPair ==
    (part8 = "two" /\ Cardinality(DOMAIN poses) >= 2) =>
        /\ pc8 # "panicked"
        /\ InEuclideanOrder
        /\ pc8 = "loop" => (processed = <<>> \/ Cardinality(Components) > 1)
        /\ pc8 = "done" =>
              /\ Cardinality(Components) = 1
              /\ processed[Len(processed)][3]
              /\ result8 = poses[processed[Len(processed)][1]][1]
                             * poses[processed[Len(processed)][2]][1]

(***************************************************************************)
(* day-ten: Machine                                                        *)
(***************************************************************************)
MaxLights == 2
MaxButtons == 3
MaxCounters == 2
MaxJoltButtons == 2
MaxJoltage == 2

\* Button::from_str: a button lists at least one light index
Wirings(n) == (SUBSET (0..(n - 1))) \ {{}}

\* build_equations: one equation per light; bit btn_idx of row is set when
\* the button's lights_affected contains the light
BuildEquations(lights, btns) ==
    [light_idx \in DOMAIN lights |->
        [row |-> {btn_idx \in DOMAIN btns : light_idx \in btns[btn_idx]},
         rhs |-> lights[light_idx]]]

\* build_joltage_equations: (row, target) per joltage counter
BuildJoltageEquations(jolts, btns) ==
    [idx \in DOMAIN jolts |->
        [row |-> {j \in DOMAIN btns : idx \in btns[j]}, rhs |-> jolts[idx]]]

\* row ^ row on bit sets
Xor(a, b) == (a \ b) \cup (b \ a)

\* rhs ^ rhs on bool
XorBool(a, b) == a # b

Min2(a, b) == IF a <= b THEN a ELSE b

(***************************************************************************)
(* day-ten: gaussian_elim_gf2 and find_min_button_presses                  *)
(***************************************************************************)
\* (row..eqs.len()).find(|&r| (eqs[r].row >> col) & 1 == 1); -1 when None
FindPivot(eqs, row, col) ==
    LET cands == {r \in DOMAIN eqs : r >= row /\ col \in eqs[r].row}
    IN  IF cands = {} THEN -1 ELSE CHOOSE r \in cands : \A q \in cands : r <= q

\* eqs.swap(row, pivot)
Swap(eqs, a, b) == [eqs EXCEPT ![a] = eqs[b], ![b] = eqs[a]]

\* eliminate column col from every row but the pivot row
EliminateColumn(eqs, row, col) ==
    [r \in DOMAIN eqs |->
        IF r # row /\ col \in eqs[r].row
        THEN [row |-> Xor(eqs[r].row, eqs[row].row),
              rhs |-> XorBool(eqs[r].rhs, eqs[row].rhs)]
        ELSE eqs[r]]

\* the consistency check finds a row 0 == 1
Inconsistent(eqs) == \E r \in DOMAIN eqs : eqs[r].row = {} /\ eqs[r].rhs

\* particular solution: free variables 0, pivot variables the pivot row's rhs
Particular(eqs, pc) == {col \in DOMAIN pc : pc[col] # -1 /\ eqs[pc[col]].rhs}

\* the nullspace vector of one free column
NullVector(eqs, pc, free_col) ==
    {free_col} \cup {col \in DOMAIN pc : pc[col] # -1 /\ free_col \in eqs[pc[col]].row}

\* nullspace basis, in ascending order of the free columns
RECURSIVE NullspaceFrom(_, _, _)
NullspaceFrom(eqs, pc, free_col) ==
    IF free_col \notin DOMAIN pc THEN <<>>
    ELSE (IF pc[free_col] = -1 THEN <<NullVector(eqs, pc, free_col)>> ELSE <<>>)
             \o NullspaceFrom(eqs, pc, free_col + 1)

\* x of one mask: particular xor the basis vectors the mask selects
RECURSIVE Combine(_, _, _, _)
Combine(x, basis, mask, i) ==
    IF i > Len(basis) THEN x
    ELSE Combine(IF i \in mask THEN Xor(x, basis[i]) ELSE x, basis, mask, i + 1)

SetMin(S) == CHOOSE m \in S : \A n \in S : m <= n

\* best over `for mask in 0..(1 << k)`
BruteForceAll(part, basis) ==
    SetMin({Cardinality(Combine(part, basis, mask, 1)) : mask \in SUBSET (1..Len(basis))})

\* a slip: the nullspace is not searched
BruteForceNone(part, basis) == Cardinality(part)

BruteForce(part, basis) == BruteForceAll(part, basis)

InitLights ==
    /\ IdleOthers10
    /\ \E n \in 1..MaxLights : light_diagram \in [0..(n - 1) -> BOOLEAN]
    /\ \E b \in 1..MaxButtons : buttons \in [0..(b - 1) -> Wirings(MaxLights)]
    /\ joltage_requirements = <<>>
    /\ part10 = "one"
    /\ pc10 = "eliminate"
    /\ eqs10 = BuildEquations(light_diagram, buttons)
    /\ pivot_col = [b \in DOMAIN buttons |-> -1]
    /\ row10 = 0
    /\ col10 = 0
    /\ particular = {}
    /\ nullspace = <<>>
    /\ result10 = 0

\* one pass of the column loop that finds no pivot: `continue`
SkipColumn ==
    /\ pc10 = "eliminate"
    /\ col10 \in DOMAIN pivot_col
    /\ FindPivot(eqs10, row10, col10) = -1
    /\ col10' = col10 + 1
    /\ UNCHANGED <<light_diagram, buttons, joltage_requirements, part10, pc10, eqs10,
                   pivot_col, row10, particular, nullspace, result10>>
    /\ UNCHANGED others10

\* one pass of the column loop with a pivot
PivotColumn ==
    /\ pc10 = "eliminate"
    /\ col10 \in DOMAIN pivot_col
    /\ FindPivot(eqs10, row10, col10) # -1
    /\ eqs10' = EliminateColumn(Swap(eqs10, row10, FindPivot(eqs10, row10, col10)),
                                row10, col10)
    /\ pivot_col' = [pivot_col EXCEPT ![col10] = row10]
    /\ row10' = row10 + 1
    /\ col10' = col10 + 1
    /\ UNCHANGED <<light_diagram, buttons, joltage_requirements, part10, pc10,
                   particular, nullspace, result10>>
    /\ UNCHANGED others10

\* after the loop, an inconsistent system: None, and expect() panics
NoSolution ==
    /\ pc10 = "eliminate"
    /\ col10 \notin DOMAIN pivot_col
    /\ Inconsistent(eqs10)
    /\ pc10' = "panicked"
    /\ UNCHANGED <<light_diagram, buttons, joltage_requirements, part10, eqs10,
                   pivot_col, row10, col10, particular, nullspace, result10>>
    /\ UNCHANGED others10

\* after the loop: Some((particular, nullspace))
Solved ==
    /\ pc10 = "eliminate"
    /\ col10 \notin DOMAIN pivot_col
    /\ ~Inconsistent(eqs10)
    /\ particular' = Particular(eqs10, pivot_col)
    /\ nullspace' = NullspaceFrom(eqs10, pivot_col, 0)
    /\ pc10' = "solve"
    /\ UNCHANGED <<light_diagram, buttons, joltage_requirements, part10, eqs10,
                   pivot_col, row10, col10, result10>>
    /\ UNCHANGED others10

\* find_min_button_presses: the brute force over the nullspace
MinOverNullspace ==
    /\ pc10 = "solve"
    /\ result10' = BruteForce(particular, nullspace)
    /\ pc10' = "done"
    /\ UNCHANGED <<light_diagram, buttons, joltage_requirements, part10, eqs10,
                   pivot_col, row10, col10, particular, nullspace>>
    /\ UNCHANGED others10

NextLights == SkipColumn \/ PivotColumn \/ NoSolution \/ Solved \/ MinOverNullspace

(***************************************************************************)
(* day-ten: dfs and find_min_button_presses_pt_2                           *)
(***************************************************************************)
RECURSIVE SumUpTo(_, _)
\* x.iter().take(k).sum()
SumUpTo(x, k) == IF k = 0 THEN 0 ELSE x[k - 1] + SumUpTo(x, k - 1)

\* the closure of eqs.iter().all(..): the pressed buttons of row sum to rhs
RowSum(x, row) == SumUpTo([j \in DOMAIN x |-> IF j \in row THEN x[j] ELSE 0],
                          Cardinality(DOMAIN x))

AllSatisfied(eqs, x) == \A i \in DOMAIN eqs : RowSum(x, eqs[i].row) = eqs[i].rhs

RECURSIVE Dfs(_, _, _, _)
RECURSIVE DfsLoop(_, _, _, _, _, _)
\* dfs(eqs, idx, x, best): the value of *best when the call returns
Dfs(eqs, idx, x, best) ==
    IF idx = Cardinality(DOMAIN x)
    THEN IF AllSatisfied(eqs, x)
         THEN Min2(best, SumUpTo(x, Cardinality(DOMAIN x)))
         ELSE best
    ELSE DfsLoop(eqs, idx, x, 0, best, best)

\* `for v in 0..=*best` from v on; last is *best when the loop was entered
DfsLoop(eqs, idx, x, v, last, best) ==
    IF v > last THEN best
    ELSE LET x1 == [x EXCEPT ![idx] = v]
         IN  IF SumUpTo(x1, idx + 1) >= best THEN best
             ELSE DfsLoop(eqs, idx, x1, v + 1, last, Dfs(eqs, idx + 1, x1, best))

\* eqs.iter().map(|(_, rhs)| *rhs).max().unwrap_or(0)
RhsMax(eqs) ==
    IF DOMAIN eqs = {} THEN 0
    ELSE CHOOSE m \in {eqs[i].rhs : i \in DOMAIN eqs} :
             \A i \in DOMAIN eqs : eqs[i].rhs <= m

\* a slip: the bound forgets the number of buttons
InitialBestNoButtons(eqs, n_buttons) == RhsMax(eqs)

\* let mut best = rhs_max * n_buttons as u32
InitialBest(eqs, n_buttons) == RhsMax(eqs) * n_buttons

FindMinButtonPressesPt2(jolts, btns) ==
    LET eqs       == BuildJoltageEquations(jolts, btns)
        n_buttons == Cardinality(DOMAIN btns)
    IN  Dfs(eqs, 0, [j \in DOMAIN btns |-> 0], InitialBest(eqs, n_buttons))

InitJoltage ==
    /\ IdleOthers10
    /\ light_diagram = <<>>
    /\ \E b \in 1..MaxJoltButtons : buttons \in [0..(b - 1) -> Wirings(MaxCounters)]
    /\ \E n \in 1..MaxCounters :
           joltage_requirements \in [0..(n - 1) -> 0..MaxJoltage]
    /\ part10 = "two"
    /\ pc10 = "dfs"
    /\ eqs10 = BuildJoltageEquations(joltage_requirements, buttons)
    /\ pivot_col = <<>>
    /\ row10 = 0
    /\ col10 = 0
    /\ particular = {}
    /\ nullspace = <<>>
    /\ result10 = 0

\* find_min_button_presses_pt_2
RunDfs ==
    /\ pc10 = "dfs"
    /\ result10' = FindMinButtonPressesPt2(joltage_requirements, buttons)
    /\ pc10' = "done"
    /\ UNCHANGED <<light_diagram, buttons, joltage_requirements, part10, eqs10,
                   pivot_col, row10, col10, particular, nullspace>>
    /\ UNCHANGED others10

NextJoltage == RunDfs

(***************************************************************************)
(* day-ten: what the claims state                                          *)
(***************************************************************************)
\* the lights that are on after the buttons of S were pressed once each
LightsAfter(S) ==
    [l \in DOMAIN light_diagram |->
        Cardinality({b \in S : l \in buttons[b]}) % 2 = 1]

Solutions == {S \in SUBSET (DOMAIN buttons) : LightsAfter(S) = light_diagram}

PressCounts ==
    [DOMAIN buttons -> 0..RhsMax(BuildJoltageEquations(joltage_requirements, buttons))]

\* counter i receives the presses of the buttons wired to it
CounterValue(x, i) ==
    LET wired == {b \in DOMAIN buttons : i \in buttons[b]}
        Sum[S \in SUBSET wired] ==
            IF S = {} THEN 0
            ELSE LET b == CHOOSE c \in S : TRUE IN x[b] + Sum[S \ {b}]
    IN  Sum[wired]

TotalPresses(x) ==
    LET Sum[S \in SUBSET DOMAIN buttons] ==
            IF S = {} THEN 0
            ELSE LET b == CHOOSE c \in S : TRUE IN x[b] + Sum[S \ {b}]
    IN  Sum[DOMAIN buttons]

Feasible ==
    {x \in PressCounts :
        \A i \in DOMAIN joltage_requirements :
            CounterValue(x, i) = joltage_requirements[i]}

MaxRotations == 3

\* Rotation amounts (u16): of the size the puzzle uses, and from the rest
\* of the type's range
Amounts == {0, 1, 50, 99, 100, 150, 250, 32717, 32767, 32768, 40000, 65500, 65535}

\* `as i16` of a u16
AsI16(n) == IF n >= Pow2(15) THEN n - Pow2(16) ELSE n

\* Rust's % on i16: the remainder has the sign of the dividend
Rem(a, b) == IF a >= 0 THEN a % b ELSE 0 - ((0 - a) % b)

Abs(a) == IF a >= 0 THEN a ELSE 0 - a

\* (int_val as f32 / 100_f32).abs().ceil() as usize.  |int_val| <= 2^15 is
\* exact in f32 and the rounded quotient of a non-multiple of 100 stays
\* strictly between the same two integers, so this is the integer ceiling.
CeilHundredths(int_val) == (Abs(int_val) + 99) \div 100

\* self.val as u16 + *val, before the overflow check
RightSum(v, n) == v + n

\* self.val as i16 - *val as i16, before the overflow check
LeftDifference(v, n) == v - AsI16(n)

RightOverflows(v, n) == RightSum(v, n) >= Pow2(16)

LeftOverflows(v, n) == LeftDifference(v, n) >= Pow2(15)

\* the sum or difference as the release build wraps it
WrapU16(x) == x % Pow2(16)
WrapI16(x) == ((x + Pow2(15)) % Pow2(16)) - Pow2(15)

\* counter_pt_2 after the Left arm, before `if prev_val == 0`
LeftCounter(ctr, int_val) ==
    IF Rem(int_val, 100) < 0 THEN ctr + CeilHundredths(int_val)
    ELSE IF Rem(int_val, 100) = 0 THEN ctr + 1 ELSE ctr

\* `self.counter_pt_2 -= 1` finds the counter at 0
CounterUnderflows(prev_val, ctr) == prev_val = 0 /\ ctr = 0

\* self.val after the Left arm
LeftVal(int_val) ==
    IF Rem(int_val, 100) < 0 THEN Rem(int_val, 100) + 100 ELSE Rem(int_val, 100)

\* --- the dial itself, click by click
\* number of multiples of 100 among lo..hi
MultiplesOfHundred(lo, hi) ==
    IF lo > hi THEN 0 ELSE (hi \div 100) - ((lo - 1) \div 100)

\* clicks of one rotation after which the dial points at 0: the dial passes
\* p+1..p+n turning right and p-1 down to p-n turning left
ClicksAtZero(p, dir, n) ==
    IF dir = "R" THEN MultiplesOfHundred(p + 1, p + n)
                 ELSE MultiplesOfHundred(p - n, p - 1)

DialAfter(p, dir, n) == IF dir = "R" THEN (p + n) % 100 ELSE (p - n) % 100

InitDial ==
    /\ IdleOthers1
    /\ val = 50
    /\ counter_pt_1 = 0
    /\ counter_pt_2 = 0
    /\ pc1 = "run"
    /\ build1 \in {"debug", "release"}
    /\ applied = <<>>
    /\ dial = 50
    /\ clicks_at_zero = 0
    /\ stops_at_zero = 0

\* the history's part of a rotation
Turned(dir, n) ==
    /\ applied' = Append(applied, <<dir, n>>)
    /\ dial' = DialAfter(dial, dir, n)
    /\ clicks_at_zero' = clicks_at_zero + ClicksAtZero(dial, dir, n)
    /\ stops_at_zero' = stops_at_zero + (IF DialAfter(dial, dir, n) = 0 THEN 1 ELSE 0)

\* Counter::rotate: the Counter after the rotation, `ok` FALSE when the
\* rotation panics (an overflow in the debug build)
Rotate(c, dir, n, build) ==
    IF dir = "R" THEN
        LET int_val == WrapU16(RightSum(c.val, n))
        IN  [ok           |-> RightOverflows(c.val, n) => build = "release",
             val          |-> int_val % 100,
             counter_pt_1 |-> c.counter_pt_1 + (IF int_val % 100 = 0 THEN 1 ELSE 0),
             counter_pt_2 |-> c.counter_pt_2 + (int_val \div 100)]
    ELSE
        LET int_val == WrapI16(LeftDifference(c.val, n))
            ctr     == LeftCounter(c.counter_pt_2, int_val)
        IN  [ok           |-> (LeftOverflows(c.val, n) \/ CounterUnderflows(c.val, ctr))
                                  => build = "release",
             val          |-> LeftVal(int_val),
             counter_pt_1 |-> c.counter_pt_1 + (IF LeftVal(int_val) = 0 THEN 1 ELSE 0),
             counter_pt_2 |-> IF c.val = 0 THEN ctr - 1 ELSE ctr]

\* the Counter of the run
Counter == [val |-> val, counter_pt_1 |-> counter_pt_1, counter_pt_2 |-> counter_pt_2]

Rotated(dir, n) ==
    LET c == Rotate(Counter, dir, n, build1)
    IN  /\ c.ok
        /\ val' = c.val
        /\ counter_pt_1' = c.counter_pt_1
        /\ counter_pt_2' = c.counter_pt_2

\* Counter::rotate(Rotation::Right(n))
RotateRight ==
    /\ pc1 = "run"
    /\ Len(applied) < MaxRotations
    /\ \E n \in Amounts : Rotated("R", n) /\ Turned("R", n)
    /\ UNCHANGED <<pc1, build1>>
    /\ UNCHANGED others1

\* Counter::rotate(Rotation::Left(n))
RotateLeft ==
    /\ pc1 = "run"
    /\ Len(applied) < MaxRotations
    /\ \E n \in Amounts : Rotated("L", n) /\ Turned("L", n)
    /\ UNCHANGED <<pc1, build1>>
    /\ UNCHANGED others1

\* the debug build: the overflowing add or subtract panics
RotateOverflows ==
    /\ pc1 = "run"
    /\ Len(applied) < MaxRotations
    /\ \E n \in Amounts : \E dir \in {"L", "R"} :
        /\ ~Rotate(Counter, dir, n, build1).ok
        /\ applied' = Append(applied, <<dir, n>>)
    /\ pc1' = "panicked"
    /\ UNCHANGED <<val, counter_pt_1, counter_pt_2, build1, dial,
                   clicks_at_zero, stops_at_zero>>
    /\ UNCHANGED others1

Next1 == RotateRight \/ RotateLeft \/ RotateOverflows

\* C9: after any sequence of rotations from 50, counter_pt_2 is the number
\* of single clicks, over the whole sequence, after which the dial pointed
\* at 0 (clicks in the middle of a rotation as well as its last one).
C9_CounterPt2CountsClicks ==
    pc1 = "run" => counter_pt_2 = clicks_at_zero

\* C10: after any sequence of rotations with u16 amounts, val is in 0..99
\* and is (50 + right amounts - left amounts) mod 100, and counter_pt_1 is
\* the number of rotations after which val was 0.
C10_ValIsDialPosition ==
    pc1 = "run" =>
        /\ val \in 0..99
        /\ val = dial
        /\ counter_pt_1 = stops_at_zero


(***************************************************************************)
(* main(): read the file, run the selected part, print the answer          *)
(***************************************************************************)
MaxLines == 3       \* lines of a file read line by line
MaxRows == 2        \* rows of a file holding a grid
MaxCols == 3        \* characters of a grid row

\* what a call leaves behind: a value, or a panic (todo!, expect, unwrap,
\* an index out of bounds) that unwinds main
Returns(v) == [ok |-> TRUE, value |-> v]
Panics == [ok |-> FALSE, value |-> 0]

\* a printed line
Line(kind, value) == [kind |-> kind, value |-> value]

RECURSIVE SeqsUpTo(_, _)
\* the sequences over S of length at most n
SeqsUpTo(S, n) ==
    IF n = 0 THEN {<<>>}
    ELSE LET shorter == SeqsUpTo(S, n - 1)
         IN  shorter \cup {Append(q, x) : q \in shorter, x \in S}

\* --- str::parse, str::trim, str::split
DigitChars == <<"0", "1", "2", "3", "4", "5", "6", "7", "8", "9">>

IsDigit(c) == \E i \in 1..10 : DigitChars[i] = c

DigitValue(c) == (CHOOSE i \in 1..10 : DigitChars[i] = c) - 1

RECURSIVE DigitsValue(_)
DigitsValue(s) ==
    IF s = <<>> THEN 0
    ELSE DigitsValue(SubSeq(s, 1, Len(s) - 1)) * 10 + DigitValue(s[Len(s)])

\* <unsigned>::from_str: an optional '+', then one or more digits, the value
\* at most max; -1 stands for Err
ParseUnsigned(s, max) ==
    LET body == IF Len(s) > 0 /\ s[1] = "+" THEN Tail(s) ELSE s
    IN  IF Len(body) = 0 \/ (\E i \in 1..Len(body) : ~IsDigit(body[i])) THEN -1
        ELSE IF DigitsValue(body) > max THEN -1
        ELSE DigitsValue(body)

ParseU16(s) == ParseUnsigned(s, Pow2(16) - 1)

\* the lines modelled are far too short to pass usize::MAX
ParseUsize(s) == ParseUnsigned(s, Pow2(30))

RECURSIVE TrimStart(_)
TrimStart(s) == IF Len(s) > 0 /\ s[1] = " " THEN TrimStart(Tail(s)) ELSE s

RECURSIVE TrimEnd(_)
TrimEnd(s) ==
    IF Len(s) > 0 /\ s[Len(s)] = " " THEN TrimEnd(SubSeq(s, 1, Len(s) - 1)) ELSE s

Trim(s) == TrimEnd(TrimStart(s))

RECURSIVE Split(_, _)
\* the pieces of s between the occurrences of sep
Split(s, sep) ==
    IF \E i \in 1..Len(s) : s[i] = sep
    THEN LET i == CHOOSE j \in 1..Len(s) : s[j] = sep /\ \A k \in 1..(j - 1) : s[k] # sep
         IN  <<SubSeq(s, 1, i - 1)>> \o Split(SubSeq(s, i + 1, Len(s)), sep)
    ELSE <<s>>

\* --- day-one
\* the lines a day-one file is made of here
LinesOne ==
    {<<"L", "5">>, <<"R", "5", "0">>, <<"L", "5", "0">>, <<"X", "5">>, <<"5", "5">>,
     <<"L">>, <<>>, <<"R", "x">>}

\* Rotation::from_line
FromLine(line) ==
    IF Len(line) = 0 THEN Panics                               \* split_at(1)
    ELSE IF ParseU16(Tail(line)) < 0 THEN Panics               \* expect("Invalid")
    ELSE IF line[1] = "L" THEN Returns(<<"L", ParseU16(Tail(line))>>)
    ELSE IF line[1] = "R" THEN Returns(<<"R", ParseU16(Tail(line))>>)
    ELSE Panics                                                \* "Not valid start to line"

\* map_one of each line, worked out once
MapOne == [line \in LinesOne |-> FromLine(line)]

\* parse_input(file, map_one) takes a line: map_one's value joins the Vec
ParseLineOne(parsed, line) ==
    IF MapOne[line].ok THEN Returns(Append(parsed, MapOne[line].value)) ELSE Panics

RECURSIVE RotateAll(_, _, _)
\* `for rot in input { counter.rotate(&rot) }`
RotateAll(c, rots, build) ==
    IF rots = <<>> \/ ~c.ok THEN c
    ELSE RotateAll(Rotate(c, Head(rots)[1], Head(rots)[2], build), Tail(rots), build)

\* Counter::default()
CounterDefault == [ok |-> TRUE, val |-> 50, counter_pt_1 |-> 0, counter_pt_2 |-> 0]

PartOneInternalOne(input, build) ==
    LET c == RotateAll(CounterDefault, input, build)
    IN  IF c.ok THEN Returns(c.counter_pt_1) ELSE Panics

PartTwoInternalOne(input, build) ==
    LET c == RotateAll(CounterDefault, input, build)
    IN  IF c.ok THEN Returns(c.counter_pt_2) ELSE Panics

\* --- day-five
\* the lines a day-five file is made of here
LinesFive ==
    {<<>>, <<"1", "-", "3">>, <<"2">>, <<"5">>, <<" ", "2">>, <<"x">>, <<"2", "-">>}

\* Range::new
RangeNew(input) ==
    LET split == Split(Trim(input), "-")
    IN  IF ParseUsize(split[1]) < 0 THEN Panics
        ELSE IF Len(split) < 2 THEN Panics
        ELSE IF ParseUsize(split[2]) < 0 THEN Panics
        ELSE Returns([start |-> ParseUsize(split[1]), end |-> ParseUsize(split[2])])

\* IngredientsList::add_ingredient
AddIngredient(list, ingredient) ==
    IF ingredient \in DOMAIN list THEN [list EXCEPT ![ingredient] = @ + 1]
    ELSE [k \in DOMAIN list \cup {ingredient} |-> IF k = ingredient THEN 1 ELSE list[k]]

\* the (Ranges, IngredientsList) parse_input starts from, and its flag
EmptyInputFive ==
    [has_found_blank_line |-> FALSE, fresh_ingredients |-> <<>>, ingredients |-> <<>>]

\* Range::new(&line) and line.trim().parse() of each line, worked out once
RangeOf == [line \in LinesFive |-> RangeNew(line)]

IngredientOf == [line \in LinesFive |-> ParseUsize(Trim(line))]

\* the body of parse_input's loop: the input so far after the line, and
\* whether the line made it print
ParseLineFive(acc, line) ==
    IF Len(line) = 0
    THEN [ok |-> TRUE, printed |-> TRUE,
          value |-> [acc EXCEPT !.has_found_blank_line = TRUE]]
    ELSE IF ~acc.has_found_blank_line
    THEN IF RangeOf[line].ok
         THEN [ok |-> TRUE, printed |-> FALSE,
               value |-> [acc EXCEPT !.fresh_ingredients = Append(@, RangeOf[line].value)]]
         ELSE [ok |-> FALSE, printed |-> FALSE, value |-> acc]
    ELSE IF IngredientOf[line] >= 0
         THEN [ok |-> TRUE, printed |-> FALSE,
               value |-> [acc EXCEPT !.ingredients = AddIngredient(@, IngredientOf[line])]]
         ELSE [ok |-> FALSE, printed |-> FALSE, value |-> acc]

\* Ranges::contains
RangesContain(ranges, value) ==
    \E i \in 1..Len(ranges) : value >= ranges[i].start /\ value <= ranges[i].end

PartOneInternalFive(input) ==
    Returns(Cardinality({k \in DOMAIN input.ingredients :
                            RangesContain(input.fresh_ingredients, k)}))

\* a part_two_internal that answers: what todo!() is not
PartTwoInternalFiveAnswers(input) == Returns(0)

\* todo!()
PartTwoInternalFive(input) == Panics

\* --- day-twelve, part two
PartTwoTwelve(s) == Panics

\* --- template
\* map_one, map_two
MapTemplate(line) == Panics

\* parse_input(file, f) takes a line
ParseLineTemplate(parsed, line) ==
    IF MapTemplate(line).ok THEN Returns(Append(parsed, MapTemplate(line).value)) ELSE Panics

\* part_one_internal, part_two_internal
PartInternalTemplate(input) == Panics

\* --- day-four
\* Grid::new: inner
GridInner(lines) ==
    [r \in 1..Len(lines) |-> [c \in 1..Len(lines[r]) |-> lines[r][c] = "@"]]

\* the (r, c) the loops of populate_neighbor_map and evolve visit, in order
RowMajor(n_rows, n_cols) ==
    [k \in 1..(n_rows * n_cols) |-> <<((k - 1) \div n_cols) + 1, ((k - 1) % n_cols) + 1>>]

NumCols(rows) == IF Len(rows) = 0 THEN 0 ELSE Len(rows[1])

\* check_neighbor returns Ok
CheckNeighbor(inner, row, col, offset_row, offset_col) ==
    /\ ~(offset_row = 0 /\ offset_col = 0)
    /\ row + offset_row >= 1 /\ row + offset_row <= Len(inner)
    /\ col + offset_col >= 1 /\ col + offset_col <= Len(inner[1])

\* the cells check_neighbor accepts around (row, col)
Neighbors(inner, row, col) ==
    {<<row + d[1], col + d[2]>> :
        d \in {e \in {-1, 0, 1} \X {-1, 0, 1} : CheckNeighbor(inner, row, col, e[1], e[2])}}

\* inner[r][c] is there to read
Indexable(rows, cell) == cell[2] <= Len(rows[cell[1]])

\* sum_neighbors
SumNeighbors(inner, row, col) ==
    Cardinality({n \in Neighbors(inner, row, col) :
                    Indexable(inner, n) /\ inner[n[1]][n[2]]})

\* populate_neighbor_map indexes past the end of a row shorter than row 0
PopulatePanics(inner) ==
    \E k \in 1..(Len(inner) * NumCols(inner)) :
        LET cell == RowMajor(Len(inner), NumCols(inner))[k]
        IN  \/ \E n \in Neighbors(inner, cell[1], cell[2]) : ~Indexable(inner, n)
            \/ SumNeighbors(inner, cell[1], cell[2]) < 4 /\ ~Indexable(inner, cell)

\* populate_neighbor_map
NeighborMap(inner) ==
    [r \in 1..Len(inner) |-> [c \in 1..NumCols(inner) |-> SumNeighbors(inner, r, c)]]

AccessibilityMap(inner) ==
    [r \in 1..Len(inner) |->
        [c \in 1..NumCols(inner) |-> SumNeighbors(inner, r, c) < 4 /\ inner[r][c]]]

\* Grid::new
GridNew(lines) ==
    LET inner == GridInner(lines)
    IN  IF PopulatePanics(inner) THEN Panics
        ELSE Returns([ok |-> TRUE, removed |-> 0, inner |-> inner,
                      neighbor_map |-> NeighborMap(inner),
                      accessibility_map |-> AccessibilityMap(inner)])

\* Grid::count_roll_access
CountRollAccess(grid) ==
    LET map == grid.accessibility_map
    IN  Cardinality({k \in 1..(Len(map) * NumCols(map)) :
            LET cell == RowMajor(Len(map), NumCols(map))[k] IN map[cell[1]][cell[2]]})

\* `<=` in the place of `<`
UsizeLessOrEqual(a, b) == a >= 0 /\ a <= b

\* `<` on usize, a counter that wrapped below 0 being close to usize::MAX
UsizeLess(a, b) == a >= 0 /\ a < b

\* evolve's body for one accessible entry: the roll goes, and
\* update_removal_and_accessibility_of_neighbors
RemoveRoll(grid, cell, build) ==
    LET around == Neighbors(grid.inner, cell[1], cell[2])
        inner  == [grid.inner EXCEPT ![cell[1]][cell[2]] = FALSE]
        counts == [r \in DOMAIN grid.neighbor_map |->
                     [c \in DOMAIN grid.neighbor_map[r] |->
                        IF <<r, c>> \in around THEN grid.neighbor_map[r][c] - 1
                        ELSE grid.neighbor_map[r][c]]]
    IN  [ok      |-> (\E n \in around : grid.neighbor_map[n[1]][n[2]] = 0)
                         => build = "release",
         removed |-> grid.removed + 1,
         inner   |-> inner,
         neighbor_map |-> counts,
         accessibility_map |->
             [r \in DOMAIN grid.accessibility_map |->
                [c \in DOMAIN grid.accessibility_map[r] |->
                   IF <<r, c>> \in around THEN UsizeLess(counts[r][c], 4) /\ inner[r][c]
                   ELSE IF <<r, c>> = cell THEN FALSE
                   ELSE grid.accessibility_map[r][c]]]]

RECURSIVE EvolveFrom(_, _, _, _)
EvolveFrom(grid, accessibility_map, cells, build) ==
    IF cells = <<>> \/ ~grid.ok THEN grid
    ELSE EvolveFrom(IF accessibility_map[Head(cells)[1]][Head(cells)[2]]
                    THEN RemoveRoll(grid, Head(cells), build) ELSE grid,
                    accessibility_map, Tail(cells), build)

\* Grid::evolve: the grid after the round, `removed` the number it returns
Evolve(grid, build) ==
    EvolveFrom([grid EXCEPT !.removed = 0], grid.accessibility_map,
               RowMajor(Len(grid.accessibility_map), NumCols(grid.accessibility_map)),
               build)

RECURSIVE Part2From(_, _, _)
Part2From(grid, s, build) ==
    LET evolved == Evolve(grid, build)
    IN  IF ~evolved.ok THEN Panics
        ELSE IF evolved.removed = 0 THEN Returns(s)
        ELSE Part2From(evolved, s + evolved.removed, build)

\* Grid::part2
Part2(grid, build) == Part2From(grid, 0, build)

\* --- day-seven
\* TachyonEntry::from_char
FromChar(c) ==
    IF c = "." THEN Returns("Open")
    ELSE IF c = "^" THEN Returns("Splitter")
    ELSE IF c = "S" THEN Returns("Start")
    ELSE Panics                                        \* "Not a valid entry"

\* TachyonManifold::new
ManifoldNew(lines) ==
    IF \E r \in 1..Len(lines) : \E c \in 1..Len(lines[r]) : ~FromChar(lines[r][c]).ok
    THEN Panics
    ELSE IF Len(lines) = 0 THEN Panics                 \* inner[0]
    ELSE Returns([inner  |-> [r \in 1..Len(lines) |->
                                [c \in 1..Len(lines[r]) |-> FromChar(lines[r][c]).value]],
                  n_rows |-> Len(lines),
                  n_cols |-> Len(lines[1])])

\* TachyonManifold::get_start
GetStart(manifold) ==
    LET cells == RowMajor(manifold.n_rows, manifold.n_cols)
        stops == {k \in 1..Len(cells) :
                    \/ ~Indexable(manifold.inner, cells[k])
                    \/ manifold.inner[cells[k][1]][cells[k][2]] = "Start"}
    IN  IF stops = {} THEN Panics                      \* "Could not find start"
        ELSE LET first == cells[CHOOSE k \in stops : \A j \in stops : k <= j]
             IN  IF Indexable(manifold.inner, first) THEN Returns(first) ELSE Panics

\* TachyonManifold::query_location
QueryLocation(manifold, idx_r, idx_c, offset_r, offset_c) ==
    IF \/ idx_r + offset_r < 1 \/ idx_r + offset_r > manifold.n_rows
       \/ idx_c + offset_c < 1 \/ idx_c + offset_c > manifold.n_cols
    THEN Returns("None")
    ELSE IF ~Indexable(manifold.inner, <<idx_r + offset_r, idx_c + offset_c>>) THEN Panics
    ELSE Returns(manifold.inner[idx_r + offset_r][idx_c + offset_c])

\* TachyonBeam::evolve
BeamEvolve(beam, manifold) ==
    LET below == QueryLocation(manifold, beam[1], beam[2], 1, 0)
        left  == QueryLocation(manifold, beam[1], beam[2], 1, -1)
        right == QueryLocation(manifold, beam[1], beam[2], 1, 1)
    IN  IF ~below.ok THEN Panics
        ELSE IF below.value = "None" THEN Returns(<<>>)
        ELSE IF below.value = "Start" THEN Panics      \* "This doesn't make sense"
        ELSE IF below.value = "Open" THEN Returns(<<<<beam[1] + 1, beam[2]>>>>)
        ELSE IF ~left.ok THEN Panics
        ELSE IF left.value = "None" THEN Returns(<<>>)
        ELSE IF ~right.ok THEN Panics
        ELSE IF right.value = "None" THEN Returns(<<<<beam[1] + 1, beam[2] - 1>>>>)
        ELSE Returns(<<<<beam[1] + 1, beam[2] - 1>>, <<beam[1] + 1, beam[2] + 1>>>>)

Elements(q) == {q[i] : i \in 1..Len(q)}

RECURSIVE RunP1From(_, _, _)
\* the `while !beams.is_empty()` of run_p1
RunP1From(manifold, beams, ctr) ==
    IF beams = {} THEN Returns(ctr)
    ELSE IF \E b \in beams : ~BeamEvolve(b, manifold).ok THEN Panics
    ELSE RunP1From(manifold,
                   UNION {Elements(BeamEvolve(b, manifold).value) : b \in beams},
                   ctr + Cardinality({b \in beams : Len(BeamEvolve(b, manifold).value) = 2}))

\* Manager::run_p1
RunP1(manifold) ==
    IF GetStart(manifold).ok THEN RunP1From(manifold, {GetStart(manifold).value}, 0)
    ELSE Panics

RECURSIVE RunP2From(_, _, _)
\* the `while !active_timelines.is_empty()` of run_p2
RunP2From(manifold, active_timelines, deactive_timeline_ctr) ==
    IF active_timelines = {} THEN Returns(deactive_timeline_ctr)
    ELSE IF \E v \in active_timelines : ~BeamEvolve(v[Len(v)], manifold).ok THEN Panics
    ELSE RunP2From(manifold,
                   UNION {{Append(v, b) : b \in Elements(BeamEvolve(v[Len(v)], manifold).value)}
                             : v \in active_timelines},
                   deactive_timeline_ctr
                     + Cardinality({v \in active_timelines :
                                       Len(BeamEvolve(v[Len(v)], manifold).value) = 0}))

\* Manager::run_p2
RunP2(manifold) ==
    IF GetStart(manifold).ok THEN RunP2From(manifold, {<<GetStart(manifold).value>>}, 0)
    ELSE Panics

\* --- main
\* the programs whose parse_input takes the file line by line; the others
\* read it whole
LineByLine == {"day-one", "day-five", "template"}

\* parse_input takes one more line
ParseLine(prog, parsed, line) ==
    CASE prog = "day-one"  -> ParseLineOne(parsed, line)
      [] prog = "day-five" -> [ok |-> ParseLineFive(parsed, line).ok,
                               value |-> ParseLineFive(parsed, line).value]
      [] prog = "template" -> ParseLineTemplate(parsed, line)

\* what parse_input prints at the line
ParseLinePrints(prog, parsed, line) ==
    IF prog = "day-five" /\ ParseLineFive(parsed, line).printed
    THEN <<Line("note", "Filled the fresh list")>>
    ELSE <<>>

\* what parse_input starts from
EmptyInput(prog) == IF prog = "day-five" THEN EmptyInputFive ELSE <<>>

\* parse_input of a program that reads the file whole
ParseInput(prog, lines) ==
    CASE prog = "day-four"  -> GridNew(lines)
      [] prog = "day-seven" -> ManifoldNew(lines)

\* part_one_internal / part_two_internal of the program (day-twelve: part_two)
PartInternal(prog, part, input, build) ==
    CASE prog = "day-one"    -> IF part = 1 THEN PartOneInternalOne(input, build)
                                ELSE PartTwoInternalOne(input, build)
      [] prog = "day-four"   -> IF part = 1 THEN Returns(CountRollAccess(input))
                                ELSE Part2(input, build)
      [] prog = "day-five"   -> IF part = 1 THEN PartOneInternalFive(input)
                                ELSE PartTwoInternalFive(input)
      [] prog = "day-seven"  -> IF part = 1 THEN RunP1(input) ELSE RunP2(input)
      [] prog = "day-twelve" -> PartTwoTwelve(input)
      [] prog = "template"   -> PartInternalTemplate(input)

\* the lines a file of the program is made of
LinesOf(prog) ==
    CASE prog = "day-one"    -> LinesOne
      [] prog = "day-four"   -> SeqsUpTo({"@", ".", "x"}, MaxCols)
      [] prog = "day-five"   -> LinesFive
      [] prog = "day-seven"  -> SeqsUpTo({".", "^", "S", "x"}, MaxCols)
      [] prog = "day-twelve" -> {<<>>, <<"1">>}
      [] prog = "template"   -> {<<>>, <<"1">>}

Files(prog) ==
    UNION {[1..n -> LinesOf(prog)] :
              n \in 0..(IF prog \in {"day-four", "day-seven"} THEN MaxRows ELSE MaxLines)}

\* before main() runs
InitMain ==
    /\ IdleOthersM
    /\ program = "none"
    /\ partM = 0
    /\ buildM \in {"debug", "release"}
    /\ file = <<>>
    /\ pcM = "start"
    /\ lineM = 0
    /\ parsedM = <<>>
    /\ answerM = 0
    /\ stdoutM = <<>>

\* main() up to its `match args.part`: the arguments are parsed and the file
\* is opened.  Of day-twelve only part two, which parses nothing, is followed.
Main(progs) ==
    /\ pcM = "start"
    /\ \E prog \in progs :
        /\ program' = prog
        /\ partM' \in (IF prog = "day-twelve" THEN {2} ELSE {1, 2})
        /\ file' \in Files(prog)
        /\ pcM' = (IF prog = "day-twelve" THEN "compute" ELSE "parse")
        /\ parsedM' = EmptyInput(prog)
    /\ UNCHANGED <<buildM, lineM, answerM, stdoutM>>
    /\ UNCHANGED othersM

\* the executables with a part left unimplemented
MainTodo == Main({"day-five", "day-twelve", "template"})

\* the executables whose parsers read a fixed alphabet
MainParsers == Main({"day-one", "day-four", "day-seven"})

\* parse_input takes the next line of the file
ParseNextLine ==
    /\ pcM = "parse"
    /\ program \in LineByLine
    /\ lineM < Len(file)
    /\ ParseLine(program, parsedM, file[lineM + 1]).ok
    /\ parsedM' = ParseLine(program, parsedM, file[lineM + 1]).value
    /\ stdoutM' = stdoutM \o ParseLinePrints(program, parsedM, file[lineM + 1])
    /\ lineM' = lineM + 1
    /\ UNCHANGED <<program, partM, buildM, file, pcM, answerM>>
    /\ UNCHANGED othersM

\* parse_input returns
ParseReturns ==
    /\ pcM = "parse"
    /\ IF program \in LineByLine
       THEN lineM = Len(file) /\ UNCHANGED parsedM
       ELSE ParseInput(program, file).ok /\ parsedM' = ParseInput(program, file).value
    /\ pcM' = "compute"
    /\ UNCHANGED <<program, partM, buildM, file, lineM, answerM, stdoutM>>
    /\ UNCHANGED othersM

\* parse_input panics
ParseAborts ==
    /\ pcM = "parse"
    /\ IF program \in LineByLine
       THEN lineM < Len(file) /\ ~ParseLine(program, parsedM, file[lineM + 1]).ok
       ELSE ~ParseInput(program, file).ok
    /\ pcM' = "aborted"
    /\ UNCHANGED <<program, partM, buildM, file, lineM, parsedM, answerM, stdoutM>>
    /\ UNCHANGED othersM

\* the part returns its number to main
PartReturns ==
    /\ pcM = "compute"
    /\ PartInternal(program, partM, parsedM, buildM).ok
    /\ answerM' = PartInternal(program, partM, parsedM, buildM).value
    /\ pcM' = "print"
    /\ UNCHANGED <<program, partM, buildM, file, lineM, parsedM, stdoutM>>
    /\ UNCHANGED othersM

\* the part panics
PartAborts ==
    /\ pcM = "compute"
    /\ ~PartInternal(program, partM, parsedM, buildM).ok
    /\ pcM' = "aborted"
    /\ UNCHANGED <<program, partM, buildM, file, lineM, parsedM, answerM, stdoutM>>
    /\ UNCHANGED othersM

\* println!("{:?}", answer)
PrintAnswer ==
    /\ pcM = "print"
    /\ stdoutM' = Append(stdoutM, Line("answer", answerM))
    /\ pcM' = "completed"
    /\ UNCHANGED <<program, partM, buildM, file, lineM, parsedM, answerM>>
    /\ UNCHANGED othersM

\* println!("Completed in {:?}", start.elapsed())
PrintCompleted ==
    /\ pcM = "completed"
    /\ stdoutM' = Append(stdoutM, Line("note", "Completed in"))
    /\ pcM' = "exit"
    /\ UNCHANGED <<program, partM, buildM, file, lineM, parsedM, answerM>>
    /\ UNCHANGED othersM

\* a step of a run that has started
Running ==
    \/ ParseNextLine
    \/ ParseReturns
    \/ ParseAborts
    \/ PartReturns
    \/ PartAborts
    \/ PrintAnswer
    \/ PrintCompleted

NextTodo ==
    \/ MainTodo
    \/ ParseNextLine
    \/ ParseReturns
    \/ ParseAborts
    \/ PartReturns
    \/ PartAborts
    \/ PrintAnswer
    \/ PrintCompleted

NextParsers ==
    \/ MainParsers
    \/ ParseNextLine
    \/ ParseReturns
    \/ ParseAborts
    \/ PartReturns
    \/ PartAborts
    \/ PrintAnswer
    \/ PrintCompleted

\* no answer line has been printed, and none is on its way
NoAnswer ==
    /\ \A i \in 1..Len(stdoutM) : stdoutM[i].kind # "answer"
    /\ pcM \notin {"print", "completed", "exit"}

Unimplemented ==
    \/ program = "day-five" /\ partM = 2
    \/ program = "day-twelve" /\ partM = 2
    \/ program = "template"

OutsideAlphabet ==
    \/ /\ program = "day-one"
       /\ \E i \in 1..Len(file) : Len(file[i]) = 0 \/ file[i][1] \notin {"L", "R"}
    \/ /\ program = "day-seven"
       /\ \E i \in 1..Len(file) : \E j \in 1..Len(file[i]) : file[i][j] \notin {".", "^", "S"}
    \/ /\ program = "day-four"
       /\ \E i \in 1..Len(file) : \E j \in 1..Len(file[i]) : file[i][j] \notin {"@", "."}

\* C8: a run of day-one, day-seven or day-four on a file with input outside
\* the puzzle's alphabet is aborted and has no answer.
C8_ParsersAbortOutsideAlphabet ==
    OutsideAlphabet => NoAnswer


(***************************************************************************)
(* The parallel parts: GraphManager::part_two and Driver::part_one         *)
(***************************************************************************)
MaxRegions == 2          \* regions of a day-twelve input

\* --- day-eleven
\* max_intermediate
MaxIntermediate == 17

\* the graphs part_two runs on: edges, the four named nodes always there
Graphs ==
    {{<<"svr", "out">>, <<"dac", "out">>, <<"fft", "out">>},
     {<<"svr", "dac">>, <<"dac", "fft">>, <<"fft", "out">>},
     {<<"svr", "dac">>, <<"dac", "fft">>, <<"fft", "out">>,
      <<"svr", "fft">>, <<"fft", "dac">>, <<"dac", "out">>},
     {<<"svr", "dac">>, <<"dac", "fft">>, <<"fft", "out">>,
      <<"svr", "fft">>, <<"fft", "dac">>, <<"dac", "out">>,
      <<"svr", "aaa">>, <<"aaa", "dac">>, <<"aaa", "fft">>, <<"fft", "aaa">>}}

RECURSIVE SimplePathsFrom(_, _, _)
\* all_simple_paths(graph, from, to, 0, max_intermediate) once it has walked
\* `path`: the simple paths to `to` that start with it
SimplePathsFrom(graph, path, to) ==
    UNION {IF e[2] = to THEN {Append(path, to)}
           ELSE IF e[2] \notin Elements(path) /\ Len(path) < MaxIntermediate + 1
           THEN SimplePathsFrom(graph, Append(path, e[2]), to)
           ELSE {}
             : e \in {d \in graph : d[1] = path[Len(path)]}}

\* the closure of a thread: the count of the paths left by its filter
CountPaths(graph, from, to, avoid) ==
    Cardinality({x \in SimplePathsFrom(graph, <<from>>, to) : Elements(x) \cap avoid = {}})

\* the six threads, in the order part_two spawns them
Threads ==
    <<[name |-> "svr2dac", from |-> "svr", to |-> "dac", avoid |-> {"fft", "out"}],
      [name |-> "svr2fft", from |-> "svr", to |-> "fft", avoid |-> {"dac", "out"}],
      [name |-> "dac2fft", from |-> "dac", to |-> "fft", avoid |-> {"svr", "out"}],
      [name |-> "fft2dac", from |-> "fft", to |-> "dac", avoid |-> {"svr", "out"}],
      [name |-> "dac2out", from |-> "dac", to |-> "out", avoid |-> {"svr", "fft"}],
      [name |-> "fft2out", from |-> "fft", to |-> "out", avoid |-> {"svr", "dac"}]>>

\* the order of the join() calls: svr2dac, dac2fft, fft2out for path0, then
\* svr2fft, fft2dac, dac2out for path1
JoinOrder == <<1, 3, 6, 2, 4, 5>>

\* path0 + path1
PathSum(joined) ==
    joined[1] * joined[2] * joined[3] + joined[4] * joined[5] * joined[6]

\* --- day-twelve
\* the recursion depth at which can_fit_recursive gives up
MaxDepth == 200

\* a Shape: its height, its width and the cells <<row, column>> set in its grid
Monomino == [h |-> 1, w |-> 1, cells |-> {<<0, 0>>}]

Domino == [h |-> 1, w |-> 2, cells |-> {<<0, 0>>, <<0, 1>>}]

\* self.shapes
Shapes == <<Monomino, Domino>>

\* the regions an input may hold: each wide and high enough for every variant
RegionChoices ==
    {[width |-> 2, height |-> 2, shape_counts |-> <<0, 0>>],
     [width |-> 2, height |-> 2, shape_counts |-> <<2, 1>>],
     [width |-> 2, height |-> 2, shape_counts |-> <<1, 2>>],
     [width |-> 3, height |-> 2, shape_counts |-> <<0, 3>>],
     [width |-> 2, height |-> 3, shape_counts |-> <<1, 3>>]}

\* Shape::rotate90: new_grid[j][h - 1 - i] = grid[i][j]
Rotate90(shape) ==
    [h |-> shape.w, w |-> shape.h,
     cells |-> {<<c[2], shape.h - 1 - c[1]>> : c \in shape.cells}]

\* Shape::flip_h
FlipH(shape) ==
    [shape EXCEPT !.cells = {<<c[1], shape.w - 1 - c[2]>> : c \in shape.cells}]

\* Shape::all_variants (a HashSet: what is tried does not depend on its order)
AllVariants(shape) ==
    {shape, FlipH(shape),
     Rotate90(shape), FlipH(Rotate90(shape)),
     Rotate90(Rotate90(shape)), FlipH(Rotate90(Rotate90(shape))),
     Rotate90(Rotate90(Rotate90(shape))), FlipH(Rotate90(Rotate90(Rotate90(shape))))}

\* the cells place() sets for the variant at (x, y)
Placed(variant, x, y) == {<<y + c[1], x + c[2]>> : c \in variant.cells}

\* Driver::fits, the grid being the set of its cells that are taken
Fits(grid, variant, x, y) == Placed(variant, x, y) \cap grid = {}

RECURSIVE CanFitRecursive(_, _, _, _, _)
\* Driver::can_fit_recursive.  failed_scenarios only skips placements that
\* have failed on the same grid, and a list of shapes has one length, so no
\* search meets both True and MaxDepthReached: the outcome is the same in
\* whatever order the placements are tried.
CanFitRecursive(region, grid, shapes, shape_idx, depth) ==
    IF shape_idx > Len(shapes) THEN "True"
    ELSE IF depth >= MaxDepth THEN "MaxDepthReached"
    ELSE LET results ==
                 {CanFitRecursive(region, grid \cup Placed(p[1], p[2], p[3]), shapes,
                                  shape_idx + 1, depth + 1) :
                    p \in {q \in AllVariants(shapes[shape_idx])
                                   \X (0..(region.width - 1)) \X (0..(region.height - 1)) :
                              /\ q[2] <= region.width - q[1].w
                              /\ q[3] <= region.height - q[1].h
                              /\ Fits(grid, q[1], q[2], q[3])}}
         IN  IF "True" \in results THEN "True"
             ELSE IF "MaxDepthReached" \in results THEN "MaxDepthReached"
             ELSE "False"

\* relevant_shapes before it is sorted: shape_counts[i] clones of shapes[i]
RECURSIVE Clones(_, _, _)
Clones(shapes, shape_counts, shape_idx) ==
    IF shape_idx > Len(shape_counts) THEN <<>>
    ELSE [k \in 1..shape_counts[shape_idx] |-> shapes[shape_idx]]
            \o Clones(shapes, shape_counts, shape_idx + 1)

\* sort_by_key(size) and reverse(): the largest first, equal sizes in the
\* reverse of their order
RelevantShapes(region, shapes) ==
    LET clones == Clones(shapes, region.shape_counts, 1)
        n      == Len(clones)
        order  == CHOOSE f \in [1..n -> 1..n] :
                     \A i, j \in 1..n :
                        i < j => \/ Cardinality(clones[f[i]].cells)
                                      > Cardinality(clones[f[j]].cells)
                                 \/ /\ Cardinality(clones[f[i]].cells)
                                         = Cardinality(clones[f[j]].cells)
                                    /\ f[i] > f[j]
    IN  [i \in 1..n |-> clones[order[i]]]

\* Driver::can_fit
CanFit(region, shapes) ==
    CanFitRecursive(region, {}, RelevantShapes(region, shapes), 1, 0) = "True"

\* can_fit of each region, worked out once
CanFitOf == [region \in RegionChoices |-> CanFit(region, Shapes)]

\* --- the workers
\* a worker: where it is, what it owns and what it returns
Worker(pc) ==
    [pc |-> pc, graph |-> {}, can_fit |-> FALSE, total |-> 0, left |-> 0, value |-> 0]

\* what the workers touch
StdoutLoc == <<"stdout", 0>>
SuccessCounterLoc == <<"success_counter", 0>>
RegionsLeftLoc == <<"regions_left", 0>>
ShapesLoc == <<"self.shapes", 0>>
GraphLoc(w) == <<"graph", w>>            \* the clone moved into thread w
RegionLoc(w) == <<"region", w>>          \* self.regions[w]

\* `can_fit as usize` with the total the task loaded: what a task would
\* return if it took its number from the shared counter
TaskReturnsTotal(task) == task.total

\* `can_fit as usize`
TaskReturns(task) == IF task.can_fit THEN 1 ELSE 0

\* join() returns without waiting, par_iter's sum without its tasks
JoinableAlways(w) == TRUE

\* the worker has run to its end: join() returns, the task's number is there
Joinable(w) == workersP[w].pc = "finished"

RECURSIVE SumValues(_, _)
\* .sum()
SumValues(workers, n) == IF n = 0 THEN 0 ELSE SumValues(workers, n - 1) + workers[n].value

\* part_two / part_one has not been entered
InitPar ==
    /\ IdleOthersP
    /\ progP = "none"
    /\ inputP = <<>>
    /\ mainP = "start"
    /\ nextP = 0
    /\ joinedP = <<>>
    /\ workersP = <<>>
    /\ success_counter = 0
    /\ regions_left = 0
    /\ resultP = 0
    /\ accessP = {}

\* GraphManager::part_two is entered
PartTwoEleven ==
    /\ mainP = "start"
    /\ progP' = "day-eleven"
    /\ inputP' \in Graphs
    /\ workersP' = [w \in 1..Len(Threads) |-> Worker("unspawned")]
    /\ mainP' = "spawn"
    /\ UNCHANGED <<nextP, joinedP, success_counter, regions_left, resultP, accessP>>
    /\ UNCHANGED othersP

\* the next thread is spawned, a clone of self.graph moved into it
Spawn ==
    /\ mainP = "spawn"
    /\ workersP' = [workersP EXCEPT ![nextP + 1] =
                        [@ EXCEPT !.pc = "spawned", !.graph = inputP]]
    /\ IF nextP + 1 = Len(Threads)
       THEN mainP' = "join" /\ nextP' = 0
       ELSE mainP' = mainP /\ nextP' = nextP + 1
    /\ UNCHANGED <<progP, inputP, joinedP, success_counter, regions_left, resultP,
                   accessP>>
    /\ UNCHANGED othersP

\* println!("Starting with ...")
ThreadStarts ==
    /\ progP = "day-eleven"
    /\ \E w \in DOMAIN workersP :
        /\ workersP[w].pc = "spawned"
        /\ workersP' = [workersP EXCEPT ![w].pc = "started"]
        /\ accessP' = accessP \cup {<<w, "write", StdoutLoc>>}
    /\ UNCHANGED <<progP, inputP, mainP, nextP, joinedP, success_counter, regions_left,
                   resultP>>
    /\ UNCHANGED othersP

\* the thread counts its paths, prints "Completed with ..." and ends
ThreadCompletes ==
    /\ progP = "day-eleven"
    /\ \E w \in DOMAIN workersP :
        /\ workersP[w].pc = "started"
        /\ workersP' = [workersP EXCEPT ![w] =
               [@ EXCEPT !.pc = "finished",
                         !.value = CountPaths(workersP[w].graph, Threads[w].from,
                                              Threads[w].to, Threads[w].avoid)]]
        /\ accessP' = accessP \cup {<<w, "read", GraphLoc(w)>>, <<w, "write", StdoutLoc>>}
    /\ UNCHANGED <<progP, inputP, mainP, nextP, joinedP, success_counter, regions_left,
                   resultP>>
    /\ UNCHANGED othersP

\* the next join().unwrap()
Join ==
    /\ mainP = "join"
    /\ nextP < Len(JoinOrder)
    /\ Joinable(JoinOrder[nextP + 1])
    /\ joinedP' = Append(joinedP, workersP[JoinOrder[nextP + 1]].value)
    /\ nextP' = nextP + 1
    /\ UNCHANGED <<progP, inputP, mainP, workersP, success_counter, regions_left, resultP,
                   accessP>>
    /\ UNCHANGED othersP

\* path0 + path1
ReturnsEleven ==
    /\ mainP = "join"
    /\ nextP = Len(JoinOrder)
    /\ resultP' = PathSum(joinedP)
    /\ mainP' = "done"
    /\ UNCHANGED <<progP, inputP, nextP, joinedP, workersP, success_counter, regions_left,
                   accessP>>
    /\ UNCHANGED othersP

\* Driver::part_one is entered: the two counters are made, par_iter has a
\* task for every region
PartOneTwelve ==
    /\ mainP = "start"
    /\ progP' = "day-twelve"
    /\ inputP' \in UNION {[1..n -> RegionChoices] : n \in 0..MaxRegions}
    /\ workersP' = [w \in 1..Len(inputP') |-> Worker("queued")]
    /\ success_counter' = 0
    /\ regions_left' = Len(inputP')
    /\ mainP' = "par_iter"
    /\ UNCHANGED <<nextP, joinedP, resultP, accessP>>
    /\ UNCHANGED othersP

\* a step of a region task
TaskStep(w, from, to) ==
    /\ progP = "day-twelve"
    /\ workersP[w].pc = from
    /\ UNCHANGED <<progP, inputP, mainP, nextP, joinedP, resultP>>
    /\ UNCHANGED othersP

\* let can_fit = Self::can_fit(region, &self.shapes)
TaskCanFit ==
    \E w \in DOMAIN workersP :
        /\ TaskStep(w, "queued", "fitted")
        /\ workersP' = [workersP EXCEPT ![w] =
               [@ EXCEPT !.pc = "fitted", !.can_fit = CanFitOf[inputP[w]]]]
        /\ accessP' = accessP \cup {<<w, "read", RegionLoc(w)>>, <<w, "read", ShapesLoc>>}
        /\ UNCHANGED <<success_counter, regions_left>>

\* if can_fit { success_counter.fetch_add(1) }
TaskCounts ==
    \E w \in DOMAIN workersP :
        /\ TaskStep(w, "fitted", "counted")
        /\ workersP' = [workersP EXCEPT ![w].pc = "counted"]
        /\ IF workersP[w].can_fit
           THEN /\ success_counter' = success_counter + 1
                /\ accessP' = accessP \cup {<<w, "read", SuccessCounterLoc>>,
                                            <<w, "write", SuccessCounterLoc>>}
           ELSE UNCHANGED <<success_counter, accessP>>
        /\ UNCHANGED regions_left

\* regions_left.fetch_sub(1)
TaskFetchSub ==
    \E w \in DOMAIN workersP :
        /\ TaskStep(w, "counted", "subtracted")
        /\ workersP' = [workersP EXCEPT ![w].pc = "subtracted"]
        /\ regions_left' = regions_left - 1
        /\ accessP' = accessP \cup {<<w, "read", RegionsLeftLoc>>,
                                    <<w, "write", RegionsLeftLoc>>}
        /\ UNCHANGED success_counter

\* success_counter.load(), the first argument of the println!
TaskLoadsTotal ==
    \E w \in DOMAIN workersP :
        /\ TaskStep(w, "subtracted", "loaded_total")
        /\ workersP' = [workersP EXCEPT ![w] =
               [@ EXCEPT !.pc = "loaded_total", !.total = success_counter]]
        /\ accessP' = accessP \cup {<<w, "read", SuccessCounterLoc>>}
        /\ UNCHANGED <<success_counter, regions_left>>

\* regions_left.load(), its second
TaskLoadsLeft ==
    \E w \in DOMAIN workersP :
        /\ TaskStep(w, "loaded_total", "loaded_left")
        /\ workersP' = [workersP EXCEPT ![w] =
               [@ EXCEPT !.pc = "loaded_left", !.left = regions_left]]
        /\ accessP' = accessP \cup {<<w, "read", RegionsLeftLoc>>}
        /\ UNCHANGED <<success_counter, regions_left>>

\* the println!, and the closure's value
TaskPrints ==
    \E w \in DOMAIN workersP :
        /\ TaskStep(w, "loaded_left", "finished")
        /\ workersP' = [workersP EXCEPT ![w] =
               [@ EXCEPT !.pc = "finished", !.value = TaskReturns(workersP[w])]]
        /\ accessP' = accessP \cup {<<w, "write", StdoutLoc>>}
        /\ UNCHANGED <<success_counter, regions_left>>

\* .sum() returns
SumReturns ==
    /\ mainP = "par_iter"
    /\ \A w \in DOMAIN workersP : Joinable(w)
    /\ resultP' = SumValues(workersP, Len(workersP))
    /\ mainP' = "done"
    /\ UNCHANGED <<progP, inputP, nextP, joinedP, workersP, success_counter, regions_left,
                   accessP>>
    /\ UNCHANGED othersP

NextPar ==
    \/ PartTwoEleven
    \/ Spawn
    \/ ThreadStarts
    \/ ThreadCompletes
    \/ Join
    \/ ReturnsEleven
    \/ PartOneTwelve
    \/ TaskCanFit
    \/ TaskCounts
    \/ TaskFetchSub
    \/ TaskLoadsTotal
    \/ TaskLoadsLeft
    \/ TaskPrints
    \/ SumReturns

\* some worker has written the location and another worker has read or
\* written it
Shared(loc) ==
    \E a \in accessP : \E b \in accessP :
        a[1] # b[1] /\ a[3] = loc /\ b[3] = loc /\ a[2] = "write"

\* what a worker's number is made from: its own graph, its own region
OwnValue(w) ==
    IF progP = "day-eleven"
    THEN CountPaths(inputP, Threads[w].from, Threads[w].to, Threads[w].avoid)
    ELSE IF CanFit(inputP[w], Shapes) THEN 1 ELSE 0

ExpectedEleven(graph) ==
    LET n(i) == CountPaths(graph, Threads[i].from, Threads[i].to, Threads[i].avoid)
    IN  n(1) * n(3) * n(6) + n(2) * n(4) * n(5)

\* C6: the number is there only when the caller is done, and then every
\* worker has finished (day-eleven: all six are joined); it is the number
\* the input alone determines, whatever the order the workers ran in.
C6_ResultAfterAllWorkers ==
    /\ mainP # "done" => resultP = 0
    /\ mainP = "done" =>
          /\ \A w \in DOMAIN workersP : workersP[w].pc = "finished"
          /\ progP = "day-eleven" =>
                /\ Len(joinedP) = Len(Threads)
                /\ resultP = ExpectedEleven(inputP)
          /\ progP = "day-twelve" =>
                resultP = Cardinality({w \in DOMAIN workersP : CanFit(inputP[w], Shapes)})

\* day-eleven has returned the 2 * 1 * 1 + 2 * 2 * 1 paths of the largest graph
C6_Witness ==
    /\ progP = "day-eleven"
    /\ mainP = "done"
    /\ resultP = 6


(***************************************************************************)
(* day-four: Grid::part2, one call of evolve at a time                     *)
(***************************************************************************)
MaxCells == 9            \* cells of a grid

\* the inputs: rectangular grids of rolls and empty cells
Grids == UNION {[1..shape[1] -> [1..shape[2] -> {"@", "."}]] :
                    shape \in {rc \in (0..MaxCells) \X (0..MaxCells) :
                                  rc[1] * rc[2] <= MaxCells}}

\* where the rolls of the input are
InitialRolls(lines) ==
    {cell \in (1..Len(lines)) \X (1..MaxCells) :
        cell[2] <= Len(lines[cell[1]]) /\ lines[cell[1]][cell[2]] = "@"}

\* where self.inner holds a roll
RollsIn(inner) ==
    {cell \in (1..Len(inner)) \X (1..MaxCells) :
        cell[2] <= Len(inner[cell[1]]) /\ inner[cell[1]][cell[2]]}

\* the rolls among the eight cells around a cell
RollsAround(rolls, cell) ==
    {other \in rolls : /\ other # cell
                       /\ other[1] - cell[1] \in {-1, 0, 1}
                       /\ other[2] - cell[2] \in {-1, 0, 1}}

\* a round as the puzzle states it: the rolls with fewer than four rolls
\* around them at the start of the round go, the others stay
RoundLeaves(rolls) == {cell \in rolls : Cardinality(RollsAround(rolls, cell)) >= 4}

\* part2 has not been called
InitRolls ==
    /\ IdleOthers4
    /\ lines4 = <<>>
    /\ build4 = "none"
    /\ grid4 = <<>>
    /\ s4 = 0
    /\ pc4 = "start"
    /\ rounds4 = 0
    /\ rolls4 = {}

\* Grid::new(input), then part2 is entered: let mut s = 0
NewGrid ==
    /\ pc4 = "start"
    /\ lines4' \in Grids
    /\ build4' \in {"debug", "release"}
    /\ GridNew(lines4').ok
    /\ grid4' = GridNew(lines4').value
    /\ s4' = 0
    /\ rounds4' = 0
    /\ rolls4' = InitialRolls(lines4')
    /\ pc4' = "loop"
    /\ UNCHANGED others4

\* an iteration of part2's loop: evolve, s += n_rolls_removed, and
\* return s if n_rolls_removed == 0
EvolveRound ==
    /\ pc4 = "loop"
    /\ LET evolved == Evolve(grid4, build4)
       IN  /\ grid4' = evolved
           /\ s4' = IF evolved.ok THEN s4 + evolved.removed ELSE s4
           /\ pc4' = IF ~evolved.ok THEN "panicked"
                     ELSE IF evolved.removed = 0 THEN "returned" ELSE "loop"
    /\ rounds4' = rounds4 + 1
    /\ rolls4' = RoundLeaves(rolls4)
    /\ UNCHANGED <<lines4, build4>>
    /\ UNCHANGED others4

NextRolls ==
    \/ NewGrid
    \/ EvolveRound

\* C11: after every call of evolve the grid holds the rolls that the rounds
\* of the puzzle leave (every roll with fewer than four rolls around it at
\* the start of the round removed), and s is the number removed so far;
\* part2 returns when a round removes none, and the number it returns is
\* the initial number of rolls minus the number left in the grid.
C11_Part2RemovesByRounds ==
    /\ pc4 \in {"loop", "returned"} =>
          /\ RollsIn(grid4.inner) = rolls4
          /\ s4 = Cardinality(InitialRolls(lines4)) - Cardinality(rolls4)
    /\ pc4 = "returned" =>
          /\ RoundLeaves(rolls4) = rolls4
          /\ s4 = Cardinality(InitialRolls(lines4)) - Cardinality(RollsIn(grid4.inner))
          /\ Part2(GridNew(lines4).value, build4) = Returns(s4)
    /\ pc4 # "panicked"

\* the full 3 x 3 grid: the corners go, then the edges, then the centre,
\* and the fourth round removes none
C11_Witness ==
    /\ pc4 = "returned"
    /\ rounds4 = 4
    /\ s4 = 9
    /\ RollsIn(grid4.inner) = {}

(***************************************************************************)
(* day-two: RangeEntry and Range::invalid_ids / invalid_ids_part2          *)
(***************************************************************************)
MaxSpan == 6             \* right - left of a range

\* where the ranges start: around the first values of every length, and
\* around values the tests of the repository use
Lefts == {0, 1, 7, 9, 10, 20, 95, 99, 109, 998, 1008, 1210, 6460, 9998, 12310,
          99997, 110108, 123120, 222220, 565652, 999997}

RECURSIVE UsizeToString(_)
\* usize::to_string
UsizeToString(id) ==
    IF id < 10 THEN <<DigitChars[id + 1]>>
    ELSE Append(UsizeToString(id \div 10), DigitChars[(id % 10) + 1])

\* s.chars().skip(n).take(l).collect()
SkipTake(s, n, l) ==
    IF n >= Len(s) THEN <<>> ELSE SubSeq(s, n + 1, Min2(n + l, Len(s)))

\* (len as f32 / 2.0).ceil() as usize
CeilHalf(len) == (len + 1) \div 2

\* RangeEntry::check_if_starts_with_zero
CheckIfStartsWithZero(id) == UsizeToString(id)[1] = "0"

\* RangeEntry::check_for_repeats
CheckForRepeats(id) ==
    LET s == UsizeToString(id)
        l == CeilHalf(Len(s))
        n_chunks == Len(s) \div l
    IN  \E chunk_num \in 0..(n_chunks - 1) :
            SkipTake(s, chunk_num * l, l) = SkipTake(s, (chunk_num + 1) * l, l)

\* RangeEntry::check_for_repeats_part2
CheckForRepeatsPart2(id) ==
    LET s == UsizeToString(id)
        max_length == CeilHalf(Len(s))
    IN  \E l \in 1..max_length :
            /\ Len(s) % l = 0
            /\ \A chunk_num \in 1..((Len(s) \div l) - 1) :
                   SkipTake(s, 0, l) = SkipTake(s, chunk_num * l, l)

\* RangeEntry::validate
Validate(id) == ~CheckForRepeats(id) /\ ~CheckIfStartsWithZero(id)

\* RangeEntry::validate_two
ValidateTwo(id) == ~CheckForRepeatsPart2(id) /\ ~CheckIfStartsWithZero(id)

\* no call is made yet
InitIds ==
    /\ IdleOthers2
    /\ callee2 = "none"
    /\ left2 = 0
    /\ right2 = 0
    /\ val2 = 0
    /\ v2 = <<>>
    /\ stdout2 = <<>>
    /\ pc2 = "start"

\* a call is entered: let mut v = Vec::new()
Enter(callee) ==
    /\ pc2 = "start"
    /\ callee2' = callee
    /\ left2' \in Lefts
    /\ right2' \in left2'..(left2' + MaxSpan)
    /\ val2' = left2'
    /\ v2' = <<>>
    /\ stdout2' = <<>>
    /\ pc2' = "loop"
    /\ UNCHANGED others2

\* Range::invalid_ids is called
InvalidIds == Enter("invalid_ids")

\* Range::invalid_ids_part2 is called
InvalidIdsPart2 == Enter("invalid_ids_part2")

\* an iteration of `for val in self.left..=self.right`
NextVal ==
    /\ pc2 = "loop"
    /\ val2 <= right2
    /\ LET valid == IF callee2 = "invalid_ids" THEN Validate(val2) ELSE ValidateTwo(val2)
       IN  v2' = IF ~valid THEN Append(v2, val2) ELSE v2
    /\ stdout2' = IF callee2 = "invalid_ids_part2" /\ CheckForRepeatsPart2(val2)
                  THEN Append(stdout2, val2) ELSE stdout2
    /\ val2' = val2 + 1
    /\ UNCHANGED <<callee2, left2, right2, pc2>>
    /\ UNCHANGED others2

\* the range is exhausted: v is returned
ReturnsIds ==
    /\ pc2 = "loop"
    /\ val2 > right2
    /\ pc2' = "returned"
    /\ UNCHANGED <<callee2, left2, right2, val2, v2, stdout2>>
    /\ UNCHANGED others2

NextIds ==
    \/ InvalidIds
    \/ InvalidIdsPart2
    \/ NextVal
    \/ ReturnsIds

RECURSIVE Pow10(_)
\* 10^n
Pow10(n) == IF n = 0 THEN 1 ELSE 10 * Pow10(n - 1)

RECURSIVE Repunit(_, _)
\* 1 0..0 1 0..0 1: k ones, l - 1 zeros between them
Repunit(l, k) == IF k = 1 THEN 1 ELSE Repunit(l, k - 1) * Pow10(l) + 1

\* the decimal representation of the id is a block of l digits written k times
BlockTimes(id, l, k) ==
    /\ id % Repunit(l, k) = 0
    /\ id \div Repunit(l, k) >= Pow10(l - 1)
    /\ id \div Repunit(l, k) < Pow10(l)

\* ... some block written exactly twice
WrittenTwice(id) == \E l \in 1..3 : BlockTimes(id, l, 2)

\* ... some block written two or more times
WrittenRepeatedly(id) ==
    \E l \in 1..3 : \E k \in 2..7 : l * k <= 7 /\ BlockTimes(id, l, k)

\* the values a call has gone through
Visited == {id \in left2..right2 : id < val2}

\* v is ascending and holds exactly the members of the set
AscendingOf(v, set) ==
    /\ {v[i] : i \in 1..Len(v)} = set
    /\ \A i \in 1..(Len(v) - 1) : v[i] < v[i + 1]

\* C12: check_for_repeats_part2(v) is true exactly when the decimal
\* representation of v is some block of digits written two or more times,
\* and invalid_ids_part2 returns, ascending, exactly those values of
\* [left, right].
C12_RepeatedBlocksPart2 ==
    callee2 = "invalid_ids_part2" =>
        /\ \A id \in Visited : CheckForRepeatsPart2(id) <=> WrittenRepeatedly(id)
        /\ pc2 = "returned" =>
              AscendingOf(v2, {id \in left2..right2 : WrittenRepeatedly(id)})

\* C13: invalid_ids returns, ascending, exactly the values of [left, right]
\* whose decimal representation is some block written exactly twice, which
\* is exactly when check_for_repeats(v) is true.
C13_DoubledBlocks ==
    callee2 = "invalid_ids" =>
        /\ \A id \in Visited : CheckForRepeats(id) <=> WrittenTwice(id)
        /\ pc2 = "returned" =>
              AscendingOf(v2, {id \in left2..right2 : WrittenTwice(id)})

(***************************************************************************)
(* day-three: BatteryBank::find_largest_k and pick_k                       *)
(***************************************************************************)
MaxBank == 5             \* characters of a bank

\* the digits the banks are written with
BankDigits == {"0", "1", "8", "9"}

\* the banks
Banks == SeqsUpTo(BankDigits, MaxBank) \ {<<>>}

\* self.0.chars().map(|c| c.to_digit(10).unwrap() as usize).collect()
Digits(bank) == [i \in 1..Len(bank) |-> DigitValue(bank[i])]

\* .enumerate().max_by_key(): the last of the largest
MaxIdxLast(digits, window_end_inclusive) ==
    CHOOSE i \in 1..window_end_inclusive :
        /\ \A j \in 1..window_end_inclusive : digits[j] <= digits[i]
        /\ \A j \in (i + 1)..window_end_inclusive : digits[j] < digits[i]

\* .enumerate().rev().max_by_key(): the last of the largest when going
\* backwards, which is the first of them in the slice
MaxIdx(digits, window_end_inclusive) ==
    CHOOSE i \in 1..window_end_inclusive :
        /\ \A j \in 1..window_end_inclusive : digits[j] <= digits[i]
        /\ \A j \in 1..(i - 1) : digits[j] < digits[i]

\* 10usize.pow(n)
UsizePow10(n) == Pow10(n)

RECURSIVE PickK(_, _)
\* BatteryBank::pick_k
PickK(digits, n_digits_to_select) ==
    IF n_digits_to_select = 0 THEN 0
    ELSE LET window_end_inclusive == Len(digits) - n_digits_to_select + 1
             max_idx == MaxIdx(digits, window_end_inclusive)
         IN  digits[max_idx] * UsizePow10(n_digits_to_select - 1)
                 + PickK(SubSeq(digits, max_idx + 1, Len(digits)), n_digits_to_select - 1)

\* BatteryBank::find_largest_k
FindLargestK(bank, k) == PickK(Digits(bank), k)

\* find_largest_k has not been called
InitBank ==
    /\ IdleOthers3
    /\ bank3 = <<>>
    /\ k3 = 0
    /\ digits3 = <<>>
    /\ select3 = 0
    /\ stack3 = <<>>
    /\ ret3 = 0
    /\ pc3 = "start"

\* find_largest_k(k) is called on a bank, and calls pick_k(&digits, k)
CallFindLargestK ==
    /\ pc3 = "start"
    /\ bank3' \in Banks
    /\ k3' \in 1..Len(bank3')
    /\ digits3' = Digits(bank3')
    /\ select3' = k3'
    /\ stack3' = <<>>
    /\ ret3' = 0
    /\ pc3' = "call"
    /\ UNCHANGED others3

\* a call of pick_k with digits left to select: it finds its digit and
\* calls pick_k on the rest of the slice
PickKCalls ==
    /\ pc3 = "call"
    /\ select3 > 0
    /\ LET window_end_inclusive == Len(digits3) - select3 + 1
           max_idx == MaxIdx(digits3, window_end_inclusive)
       IN  /\ stack3' = Append(stack3, digits3[max_idx] * UsizePow10(select3 - 1))
           /\ digits3' = SubSeq(digits3, max_idx + 1, Len(digits3))
    /\ select3' = select3 - 1
    /\ UNCHANGED <<bank3, k3, ret3, pc3>>
    /\ UNCHANGED others3

\* the call with no digit left to select returns 0
PickKBase ==
    /\ pc3 = "call"
    /\ select3 = 0
    /\ ret3' = 0
    /\ pc3' = "unwind"
    /\ UNCHANGED <<bank3, k3, digits3, select3, stack3>>
    /\ UNCHANGED others3

\* a waiting call returns max_digit * 10^(n - 1) + rest; the outermost
\* returns to find_largest_k, which returns the number
PickKReturns ==
    /\ pc3 = "unwind"
    /\ stack3 # <<>>
    /\ ret3' = stack3[Len(stack3)] + ret3
    /\ stack3' = SubSeq(stack3, 1, Len(stack3) - 1)
    /\ pc3' = IF Len(stack3) = 1 THEN "returned" ELSE "unwind"
    /\ UNCHANGED <<bank3, k3, digits3, select3>>
    /\ UNCHANGED others3

NextBank ==
    \/ CallFindLargestK
    \/ PickKCalls
    \/ PickKBase
    \/ PickKReturns

RECURSIVE NumberOf(_, _)
\* the number written by the digits of the bank at the chosen places, in
\* the order of the bank
NumberOf(bank, places) ==
    IF places = {} THEN 0
    ELSE LET last == CHOOSE i \in places : \A j \in places : j <= i
         IN  NumberOf(bank, places \ {last}) * 10 + DigitValue(bank[last])

\* every number that k digits of the bank form
Formed(bank, k) ==
    {NumberOf(bank, places) : places \in {c \in SUBSET (1..Len(bank)) : Cardinality(c) = k}}

MaxManifoldRows == 4     \* rows of a manifold
MaxManifoldCols == 5     \* columns of a manifold
MaxSplitters == 4        \* splitters of a manifold

\* the lines of a manifold: S in the first row, splitters below it
ManifoldLines(n_rows, n_cols, start_col, splitters) ==
    [r \in 1..n_rows |->
        [c \in 1..n_cols |-> IF r = 1 /\ c = start_col THEN "S"
                             ELSE IF <<r, c>> \in splitters THEN "^" ELSE "."]]

\* the inputs
Manifolds ==
    UNION {{ManifoldLines(shape[1], shape[2], shape[3], splitters) :
                splitters \in {sp \in SUBSET ((2..shape[1]) \X (1..shape[2])) :
                                  Cardinality(sp) <= MaxSplitters}} :
           shape \in {rcs \in (1..MaxManifoldRows) \X (1..MaxManifoldCols)
                                 \X (1..MaxManifoldCols) : rcs[3] <= rcs[2]}}

\* the splitters that the beams, moving down, move into
SplittersBelow(manifold, beams) ==
    {<<b[1] + 1, b[2]>> : b \in {x \in beams : /\ x[1] + 1 <= manifold.n_rows
                                               /\ manifold.inner[x[1] + 1][x[2]] = "Splitter"}}

\* where the beams are one row further down: straight below a beam over an
\* open cell, left and right of a splitter a beam has moved into
BeamsBelow(manifold, beams) ==
    {cell \in (1..manifold.n_rows) \X (1..manifold.n_cols) :
        \/ /\ <<cell[1] - 1, cell[2]>> \in beams
           /\ manifold.inner[cell[1]][cell[2]] = "Open"
        \/ \E sp \in SplittersBelow(manifold, beams) :
              sp[1] = cell[1] /\ (sp[2] = cell[2] - 1 \/ sp[2] = cell[2] + 1)}

\* run_p1 has not been called
InitBeams ==
    /\ IdleOthers7
    /\ manifold7 = <<>>
    /\ beams7 = {}
    /\ ctr7 = 0
    /\ pc7 = "start"
    /\ travelling7 = {}
    /\ reached7 = {}

\* TachyonManifold::new, Manager::new, and run_p1 up to its loop: the first
\* beam is at the start
RunP1Starts ==
    /\ pc7 = "start"
    /\ \E lines \in Manifolds :
          /\ ManifoldNew(lines).ok
          /\ manifold7' = ManifoldNew(lines).value
    /\ IF GetStart(manifold7').ok
       THEN /\ beams7' = {GetStart(manifold7').value}
            /\ pc7' = "while"
       ELSE /\ beams7' = {}
            /\ pc7' = "panicked"
    /\ ctr7' = 0
    /\ travelling7' = beams7'
    /\ reached7' = {}
    /\ UNCHANGED others7

\* an iteration of `while !beams.is_empty()`: every beam evolves, ctr counts
\* the beams that became two, beams = new_beams.  (The order in which the
\* HashSet hands out the beams changes neither the counter nor the set.)
WhileIteration ==
    /\ pc7 = "while"
    /\ beams7 # {}
    /\ IF \E beam \in beams7 : ~BeamEvolve(beam, manifold7).ok
       THEN /\ pc7' = "panicked"
            /\ UNCHANGED <<beams7, ctr7>>
       ELSE /\ beams7' = UNION {Elements(BeamEvolve(beam, manifold7).value) : beam \in beams7}
            /\ ctr7' = ctr7 + Cardinality({beam \in beams7 :
                                              Len(BeamEvolve(beam, manifold7).value) = 2})
            /\ pc7' = pc7
    /\ travelling7' = BeamsBelow(manifold7, travelling7)
    /\ reached7' = reached7 \cup SplittersBelow(manifold7, travelling7)
    /\ UNCHANGED manifold7
    /\ UNCHANGED others7

\* the loop ends: ctr is returned
ReturnsCtr ==
    /\ pc7 = "while"
    /\ beams7 = {}
    /\ pc7' = "returned"
    /\ UNCHANGED <<manifold7, beams7, ctr7, travelling7, reached7>>
    /\ UNCHANGED others7

NextBeams ==
    \/ RunP1Starts
    \/ WhileIteration
    \/ ReturnsCtr

\* C15: run_p1 returns the number of distinct splitters that a beam
\* travelling down from S has moved into, every one counted once, wherever
\* in its row it is.
C15_CountsReachedSplitters ==
    pc7 = "returned" => ctr7 = Cardinality(reached7)

(***************************************************************************)
(* Specifications: one program runs, the others stay idle                  *)
(***************************************************************************)
SpecDay8 == Init8 /\ [][Next8]_vars

SpecLights == InitLights /\ [][NextLights]_vars

SpecJoltage == InitJoltage /\ [][NextJoltage]_vars
SpecDial == InitDial /\ [][Next1]_vars
\* a run that has started is not held up: the process runs to its exit
SpecTodo == InitMain /\ [][NextTodo]_vars /\ WF_vars(Running)

SpecParsers == InitMain /\ [][NextParsers]_vars
SpecPar == InitPar /\ [][NextPar]_vars
SpecRolls == InitRolls /\ [][NextRolls]_vars
SpecIds == InitIds /\ [][NextIds]_vars
SpecBank == InitBank /\ [][NextBank]_vars
SpecBeams == InitBeams /\ [][NextBeams]_vars

====
